---- MODULE Spec2Model ----
(***************************************************************************)
(* A model of drake::multibody::RotationalInertia<T>                       *)
(* (src/multibody/tree/rotational_inertia.h).                              *)
(*                                                                         *)
(* Scalars.  T is double; the model's scalars are the integers, on which   *)
(* double addition, subtraction and multiplication are exact (every value  *)
(* the model reaches is far below 2^53), and the quiet NaN.  The model is  *)
(* therefore the program itself on small integer inputs: no rounding is    *)
(* abstracted, because none occurs on these values.                        *)
(*                                                                         *)
(* The 3x3 matrix I_SP_E_ is a tuple of three rows; the C++ element (i, j) *)
(* (0-based) is M[i+1][j+1].  Only the lower triangle is used by the       *)
(* class; the three upper off-diagonal elements keep the NaN they are      *)
(* initialised with.                                                       *)
(***************************************************************************)
EXTENDS Integers, Sequences, FiniteSets, TLC

VARIABLES
    build,   \* [armed: DRAKE_ASSERT is armed (Debug), is_bool: scalar_predicate<T>::is_bool]
    I,       \* the receiver's I_SP_E_
    op,      \* the last call made on the receiver ("ctor" right after construction)
    args,    \* the arguments of the last call
    pre,     \* the receiver's I_SP_E_ when the last call was entered
    threw,   \* the last call ended by throwing std::exception
    ret,     \* the value the last call returned (a tensor, a vector or a boolean)
    ncalls   \* the number of calls made on the receiver since its construction

vars == <<build, I, op, args, pre, threw, ret, ncalls>>

-----------------------------------------------------------------------------
(* Bounds of the model. *)

\* Moments handed to the constructors range over -1 .. MaxMoment.
MaxMoment == 2
\* Masses handed to the shift methods range over -1 .. MaxMass.
MaxMass == 2
\* At most MaxCalls calls are made on a tensor after its construction.
MaxCalls == 2
\* At most MaxSeqCalls calls precede the call of an accessor.
MaxSeqCalls == 2

-----------------------------------------------------------------------------
(* Scalars: double restricted to the integers, and quiet NaN. *)

\* std::numeric_limits<...>::quiet_NaN(): a value outside the numbers used.
NaN == -1000000

isnan(x) == x = NaN

Plus(a, b) == IF isnan(a) \/ isnan(b) THEN NaN ELSE a + b

Minus(a, b) == IF isnan(a) \/ isnan(b) THEN NaN ELSE a - b

Times(a, b) == IF isnan(a) \/ isnan(b) THEN NaN ELSE a * b

Negate(a) == IF isnan(a) THEN NaN ELSE 0 - a

\* a >= b, a < b, a == b on doubles: false as soon as one side is NaN.
GreaterEq(a, b) == ~isnan(a) /\ ~isnan(b) /\ a >= b

Less(a, b) == ~isnan(a) /\ ~isnan(b) /\ a < b

EqualTo(a, b) == ~isnan(a) /\ ~isnan(b) /\ a = b

-----------------------------------------------------------------------------
(* Storage and accessors. *)

\* Matrix3<T>::Constant(quiet_NaN): the member initialiser of I_SP_E_.
AllNaN == << <<NaN, NaN, NaN>>, <<NaN, NaN, NaN>>, <<NaN, NaN, NaN>> >>

is_lower_triangular_order(i, j) == i >= j

\* I_SP_E_(i, j) of the underlying Eigen matrix, 0-based.
Elem(M, i, j) == M[i + 1][j + 1]

\* operator()(i, j) without check_and_swap.
AtWithoutSwap(M, i, j) == Elem(M, i, j)

\* operator()(i, j): check_and_swap, then the lower-triangular element.
At(M, i, j) ==
    IF is_lower_triangular_order(i, j) THEN Elem(M, i, j) ELSE Elem(M, j, i)

get_moments(M) == <<Elem(M, 0, 0), Elem(M, 1, 1), Elem(M, 2, 2)>>

get_products(M) == <<Elem(M, 1, 0), Elem(M, 2, 0), Elem(M, 2, 1)>>

\* The six stored values, [Ixx, Iyy, Izz, Ixy, Ixz, Iyz].
Six(M) == get_moments(M) \o get_products(M)

Trace(M) == Plus(Plus(Elem(M, 0, 0), Elem(M, 1, 1)), Elem(M, 2, 2))

\* Writes the six lower-triangular elements and leaves the upper ones alone.
set_moments_and_products_no_validity_check(M, Ixx, Iyy, Izz, Ixy, Ixz, Iyz) ==
    << <<Ixx, M[1][2], M[1][3]>>,
       <<Ixy, Iyy, M[2][3]>>,
       <<Ixz, Iyz, Izz>> >>

\* get_mutable_triangular_view() OP= other: OP on the lower triangle only.
TriangularPlus(M, B) ==
    [i \in 1..3 |-> [j \in 1..3 |->
        IF i >= j THEN Plus(M[i][j], B[i][j]) ELSE M[i][j]]]

TriangularMinus(M, B) ==
    [i \in 1..3 |-> [j \in 1..3 |->
        IF i >= j THEN Minus(M[i][j], B[i][j]) ELSE M[i][j]]]

TriangularTimes(M, s) ==
    [i \in 1..3 |-> [j \in 1..3 |->
        IF i >= j THEN Times(M[i][j], s) ELSE M[i][j]]]

\* get_symmetric_matrix_view(): selfadjointView<Eigen::Lower>, the full
\* symmetric matrix read from the lower triangle alone.
get_symmetric_matrix_view(M) ==
    [i \in 1..3 |-> [j \in 1..3 |-> IF i >= j THEN M[i][j] ELSE M[j][i]]]

CopyToFullMatrix3(M) == get_symmetric_matrix_view(M)

IsNaN(M) ==
    \/ isnan(Elem(M, 0, 0)) \/ isnan(Elem(M, 1, 0)) \/ isnan(Elem(M, 1, 1))
    \/ isnan(Elem(M, 2, 0)) \/ isnan(Elem(M, 2, 1)) \/ isnan(Elem(M, 2, 2))

-----------------------------------------------------------------------------
(* Validity.                                                               *)
(*                                                                         *)
(* CouldBePhysicallyValid is documented (rotational_inertia.h, 603-628)    *)
(* to require: no NaN among the six stored values; Ixx, Iyy, Izz and the   *)
(* principal moments non-negative; Ixx, Iyy, Izz and the principal moments *)
(* satisfying the triangle inequality.  Its helpers are declared in the    *)
(* header and defined out of line.                                         *)
(*                                                                         *)
(* The tolerance epsilon is a small multiple of machine precision times    *)
(* the tensor's scale, far below 1 for the values of the model, so for an  *)
(* integer x the test x + epsilon >= 0 is x >= 0.  The principal moments   *)
(* p1 <= p2 <= p3 are the eigenvalues of the full symmetric matrix S.      *)
(* They are not computed: p1 >= 0 holds exactly when S is positive         *)
(* semidefinite, that is when every principal minor of S is >= 0, and      *)
(* p1 + p2 >= p3 holds exactly when Trace * Identity - 2 S is positive     *)
(* semidefinite (its eigenvalues are Trace - 2 p).  A negative eigenvalue  *)
(* of an integer matrix this small is below -epsilon, so the tolerance     *)
(* does not change these tests either.                                     *)
(***************************************************************************)

\* Every principal minor of the symmetric matrix
\*   | xx xy xz |
\*   | xy yy yz |
\*   | xz yz zz |   is >= 0 (the matrix is positive semidefinite).
IsPositiveSemidefinite(xx, yy, zz, xy, xz, yz) ==
    /\ xx >= 0 /\ yy >= 0 /\ zz >= 0
    /\ xx * yy - xy * xy >= 0
    /\ xx * zz - xz * xz >= 0
    /\ yy * zz - yz * yz >= 0
    /\ xx * (yy * zz - yz * yz) - xy * (xy * zz - yz * xz)
         + xz * (xy * yz - yy * xz) >= 0

\* The smallest principal moment is >= -epsilon.
ArePrincipalMomentsNearPositive(M) ==
    IsPositiveSemidefinite(Elem(M, 0, 0), Elem(M, 1, 1), Elem(M, 2, 2),
                           Elem(M, 1, 0), Elem(M, 2, 0), Elem(M, 2, 1))

\* The two smaller principal moments sum to the largest one or more.
DoPrincipalMomentsSatisfyTriangleInequality(M) ==
    LET xx == Elem(M, 0, 0)
        yy == Elem(M, 1, 1)
        zz == Elem(M, 2, 2)
    IN  IsPositiveSemidefinite(yy + zz - xx, xx + zz - yy, xx + yy - zz,
                               0 - 2 * Elem(M, 1, 0), 0 - 2 * Elem(M, 2, 0),
                               0 - 2 * Elem(M, 2, 1))

\* Ixx + epsilon >= 0 && Iyy + epsilon >= 0 && Izz + epsilon >= 0.
AreMomentsOfInertiaNearPositive(Ixx, Iyy, Izz, epsilon) ==
    /\ GreaterEq(Plus(Ixx, epsilon), 0)
    /\ GreaterEq(Plus(Iyy, epsilon), 0)
    /\ GreaterEq(Plus(Izz, epsilon), 0)

\* Ixx + Iyy + epsilon >= Izz and its two permutations.
DoMomentsSatisfyTriangleInequality(Ixx, Iyy, Izz, epsilon) ==
    /\ GreaterEq(Plus(Plus(Ixx, Iyy), epsilon), Izz)
    /\ GreaterEq(Plus(Plus(Ixx, Izz), epsilon), Iyy)
    /\ GreaterEq(Plus(Plus(Iyy, Izz), epsilon), Ixx)

\* Called on a tensor without NaN.
AreMomentsOfInertiaNearPositiveAndSatisfyTriangleInequality(M) ==
    LET m == get_moments(M)
    IN  /\ AreMomentsOfInertiaNearPositive(m[1], m[2], m[3], 0)
        /\ DoMomentsSatisfyTriangleInequality(m[1], m[2], m[3], 0)
        /\ ArePrincipalMomentsNearPositive(M)
        /\ DoPrincipalMomentsSatisfyTriangleInequality(M)

\* TRUE when a report is made (the optional has a value).
CreateInvalidityReport(M) ==
    \/ IsNaN(M)
    \/ ~AreMomentsOfInertiaNearPositiveAndSatisfyTriangleInequality(M)

\* The negation dropped: true exactly when a report is made.
CouldBePhysicallyValidNotNegated(M) == CreateInvalidityReport(M)

CouldBePhysicallyValid(M) == ~CreateInvalidityReport(M)

\* DRAKE_ASSERT_VOID(x): x is evaluated in a Debug build only.
DrakeAssertVoid(throws) == build.armed /\ throws

\* The validity check compiled for every scalar type.
ThrowIfNotPhysicallyValidAnyScalar(M) == ~CouldBePhysicallyValid(M)

\* TRUE when it throws: never for a scalar type that is not is_bool.
ThrowIfNotPhysicallyValid(M) == build.is_bool /\ ~CouldBePhysicallyValid(M)

\* The scale check of operator*= rejecting zero as well.
ThrowIfMultiplyByNonPositiveScalar(nonnegative_scalar) ==
    build.is_bool
        /\ (EqualTo(nonnegative_scalar, 0) \/ Less(nonnegative_scalar, 0))

ThrowIfMultiplyByNegativeScalar(nonnegative_scalar) ==
    build.is_bool /\ Less(nonnegative_scalar, 0)

\* The scale check of operator/= rejecting zero only.
ThrowIfDivideByZeroScalar(positive_scalar) ==
    build.is_bool /\ EqualTo(positive_scalar, 0)

ThrowIfDivideByZeroOrNegativeScalar(positive_scalar) ==
    build.is_bool /\ (EqualTo(positive_scalar, 0) \/ Less(positive_scalar, 0))

-----------------------------------------------------------------------------
(* Constructors and factories.  Each yields [I, threw]: the matrix built   *)
(* and whether the call threw (then no object exists).                     *)

\* The six-scalar constructor without its validity check.
RotationalInertia6Unchecked(Ixx, Iyy, Izz, Ixy, Ixz, Iyz) ==
    [I |-> set_moments_and_products_no_validity_check(
               AllNaN, Ixx, Iyy, Izz, Ixy, Ixz, Iyz),
     threw |-> FALSE]

RotationalInertia6(Ixx, Iyy, Izz, Ixy, Ixz, Iyz) ==
    LET M == set_moments_and_products_no_validity_check(
                 AllNaN, Ixx, Iyy, Izz, Ixy, Ixz, Iyz)
    IN  [I |-> M, threw |-> DrakeAssertVoid(ThrowIfNotPhysicallyValid(M))]

RotationalInertia3(Ixx, Iyy, Izz) == RotationalInertia6(Ixx, Iyy, Izz, 0, 0, 0)

TriaxiallySymmetric(I_triaxial) ==
    RotationalInertia6(I_triaxial, I_triaxial, I_triaxial, 0, 0, 0)

\* The factory checking validity whatever skip_validity_check says.
MakeFromMomentsAndProductsOfInertiaAlwaysChecked(Ixx, Iyy, Izz, Ixy, Ixz, Iyz, skip_validity_check) ==
    LET M == set_moments_and_products_no_validity_check(
                 AllNaN, Ixx, Iyy, Izz, Ixy, Ixz, Iyz)
    IN  [I |-> M, threw |-> ThrowIfNotPhysicallyValid(M)]

MakeFromMomentsAndProductsOfInertia(Ixx, Iyy, Izz, Ixy, Ixz, Iyz, skip_validity_check) ==
    LET M == set_moments_and_products_no_validity_check(
                 AllNaN, Ixx, Iyy, Izz, Ixy, Ixz, Iyz)
    IN  [I |-> M,
         threw |-> ~skip_validity_check /\ ThrowIfNotPhysicallyValid(M)]

\* The private constructor with mzz = mz, the factor z forgotten.
RotationalInertiaParticleLinearInZ(mass_p_PQ_E, p_PQ_E) ==
    LET mx == mass_p_PQ_E[1]
        my == mass_p_PQ_E[2]
        mz == mass_p_PQ_E[3]
        x == p_PQ_E[1]
        y == p_PQ_E[2]
        z == p_PQ_E[3]
        mxx == Times(mx, x)
        myy == Times(my, y)
        mzz == mz
        M == set_moments_and_products_no_validity_check(
                 AllNaN, Plus(myy, mzz), Plus(mxx, mzz), Plus(mxx, myy),
                 Times(Negate(mx), y), Times(Negate(mx), z),
                 Times(Negate(my), z))
    IN  [I |-> M, threw |-> DrakeAssertVoid(ThrowIfNotPhysicallyValid(M))]

\* The private constructor from mass * p_PQ_E and p_PQ_E.
RotationalInertiaParticle(mass_p_PQ_E, p_PQ_E) ==
    LET mx == mass_p_PQ_E[1]
        my == mass_p_PQ_E[2]
        mz == mass_p_PQ_E[3]
        x == p_PQ_E[1]
        y == p_PQ_E[2]
        z == p_PQ_E[3]
        mxx == Times(mx, x)
        myy == Times(my, y)
        mzz == Times(mz, z)
        M == set_moments_and_products_no_validity_check(
                 AllNaN, Plus(myy, mzz), Plus(mxx, mzz), Plus(mxx, myy),
                 Times(Negate(mx), y), Times(Negate(mx), z),
                 Times(Negate(my), z))
    IN  [I |-> M, threw |-> DrakeAssertVoid(ThrowIfNotPhysicallyValid(M))]

\* mass * p_PQ_E of Eigen.
ScaleVector(mass, p) == <<Times(mass, p[1]), Times(mass, p[2]), Times(mass, p[3])>>

\* The point-mass constructor delegating with p_PQ_E twice, the mass forgotten.
RotationalInertiaPointMassOfUnitMass(mass, p_PQ_E) ==
    RotationalInertiaParticle(p_PQ_E, p_PQ_E)

\* The public point-mass constructor.
RotationalInertiaPointMass(mass, p_PQ_E) ==
    RotationalInertiaParticle(ScaleVector(mass, p_PQ_E), p_PQ_E)

-----------------------------------------------------------------------------
(* Arithmetic.  An in-place method yields [I, threw]: the receiver's       *)
(* matrix when the call ends and whether it ended by throwing.             *)

\* operator+= adding the moments only.
PlusEqMomentsOnly(M, I_BP_E) ==
    [I |-> [i \in 1..3 |-> [j \in 1..3 |->
               IF i = j THEN Plus(M[i][j], I_BP_E[i][j]) ELSE M[i][j]]],
     threw |-> FALSE]

PlusEq(M, I_BP_E) == [I |-> TriangularPlus(M, I_BP_E), threw |-> FALSE]

MinusEqualsUnchecked(M, I_BP_E) == TriangularMinus(M, I_BP_E)

\* operator-= checking the difference before it writes the receiver.
MinusEqCheckedBeforeWrite(M, I_BP_E) ==
    LET D == MinusEqualsUnchecked(M, I_BP_E)
    IN  IF DrakeAssertVoid(ThrowIfNotPhysicallyValid(D))
        THEN [I |-> M, threw |-> TRUE]
        ELSE [I |-> D, threw |-> FALSE]

MinusEq(M, I_BP_E) ==
    LET D == MinusEqualsUnchecked(M, I_BP_E)
    IN  [I |-> D, threw |-> DrakeAssertVoid(ThrowIfNotPhysicallyValid(D))]

\* operator*= scaling the receiver before it checks the scalar.
TimesEqCheckedAfterWrite(M, nonnegative_scalar) ==
    [I |-> TriangularTimes(M, nonnegative_scalar),
     threw |-> DrakeAssertVoid(
                   ThrowIfMultiplyByNegativeScalar(nonnegative_scalar))]

TimesEq(M, nonnegative_scalar) ==
    IF DrakeAssertVoid(ThrowIfMultiplyByNegativeScalar(nonnegative_scalar))
    THEN [I |-> M, threw |-> TRUE]
    ELSE [I |-> TriangularTimes(M, nonnegative_scalar), threw |-> FALSE]

\* friend operator*(scalar, I_BP_E): RotationalInertia(I_BP_E) *= scalar.
ScalarTimes(nonnegative_scalar, I_BP_E) == TimesEq(I_BP_E, nonnegative_scalar)

\* operator*(scalar) const: RotationalInertia(*this) *= scalar.
OperatorTimes(M, nonnegative_scalar) == TimesEq(M, nonnegative_scalar)

\* x * (1 / s) for s with 1 / s a power of two (then 1 / s and the product are
\* exact in double) and x a multiple of s: the model's scalars are integers,
\* so the calls whose quotient is not an integer are outside the model.
TimesOneOver(x, s) == IF isnan(x) \/ isnan(s) THEN NaN ELSE x \div s

IsExactQuotient(M, s) ==
    /\ s \in {-2, -1, 1, 2}
    /\ \A v \in {M[1][1], M[2][1], M[2][2], M[3][1], M[3][2], M[3][3]} :
           isnan(v) \/ v % 2 = 0 \/ s \in {-1, 1}

TriangularTimesOneOver(M, s) ==
    [i \in 1..3 |-> [j \in 1..3 |->
        IF i >= j THEN TimesOneOver(M[i][j], s) ELSE M[i][j]]]

DivEq(M, positive_scalar) ==
    IF DrakeAssertVoid(ThrowIfDivideByZeroOrNegativeScalar(positive_scalar))
    THEN [I |-> M, threw |-> TRUE]
    ELSE [I |-> TriangularTimesOneOver(M, positive_scalar), threw |-> FALSE]

\* operator/(scalar) const: RotationalInertia(*this) /= scalar.
OperatorDivide(M, positive_scalar) == DivEq(M, positive_scalar)

-----------------------------------------------------------------------------
(* Shifts. *)

\* ShiftFromCenterOfMassInPlace subtracting the point-mass tensor.
ShiftFromCenterOfMassInPlaceSubtracting(M, mass, p_BcmQ_E) ==
    LET pm == RotationalInertiaPointMass(mass, p_BcmQ_E)
    IN  IF pm.threw THEN [I |-> M, threw |-> TRUE]
        ELSE [I |-> MinusEqualsUnchecked(M, pm.I), threw |-> FALSE]

ShiftFromCenterOfMassInPlace(M, mass, p_BcmQ_E) ==
    LET pm == RotationalInertiaPointMass(mass, p_BcmQ_E)
    IN  IF pm.threw THEN [I |-> M, threw |-> TRUE] ELSE PlusEq(M, pm.I)

ShiftToCenterOfMassInPlace(M, mass, p_QBcm_E) ==
    LET pm == RotationalInertiaPointMass(mass, p_QBcm_E)
    IN  IF pm.threw THEN [I |-> M, threw |-> TRUE] ELSE MinusEq(M, pm.I)

\* The two point-mass tensors subtracted the other way round.
ShiftUnitMassBodyAwayThenToCenterOfMass(p_PBcm_E, p_QBcm_E) ==
    LET shift_away == RotationalInertiaParticle(p_QBcm_E, p_QBcm_E)
        shift_towards == RotationalInertiaParticle(p_PBcm_E, p_PBcm_E)
    IN  IF shift_away.threw \/ shift_towards.threw
        THEN [I |-> AllNaN, threw |-> TRUE]
        ELSE [I |-> MinusEqualsUnchecked(shift_towards.I, shift_away.I),
              threw |-> FALSE]

ShiftUnitMassBodyToThenAwayFromCenterOfMass(p_PBcm_E, p_QBcm_E) ==
    LET shift_away == RotationalInertiaParticle(p_QBcm_E, p_QBcm_E)
        shift_towards == RotationalInertiaParticle(p_PBcm_E, p_PBcm_E)
    IN  IF shift_away.threw \/ shift_towards.threw
        THEN [I |-> AllNaN, threw |-> TRUE]
        ELSE [I |-> MinusEqualsUnchecked(shift_away.I, shift_towards.I),
              threw |-> FALSE]

ShiftToThenAwayFromCenterOfMassInPlace(M, mass, p_PBcm_E, p_QBcm_E) ==
    LET unit == ShiftUnitMassBodyToThenAwayFromCenterOfMass(p_PBcm_E, p_QBcm_E)
        scaled == ScalarTimes(mass, unit.I)
    IN  IF unit.threw \/ scaled.threw
        THEN [I |-> M, threw |-> TRUE]
        ELSE PlusEq(M, scaled.I)

-----------------------------------------------------------------------------
(* Re-expression: I_BP_A = R_AE * I_BP_E * (R_AE)^T on the six stored      *)
(* values, then the Debug-build validity check (header, 630-640).          *)

Sum3(a, b, c) == Plus(Plus(a, b), c)

\* Element (i, j), 1-based, of R * S * R^T, S the symmetric view of M.
ReExpressedElement(M, R, i, j) ==
    LET Term(k, l) == Times(Times(R[i][k], At(M, k - 1, l - 1)), R[j][l])
        Inner(k) == Sum3(Term(k, 1), Term(k, 2), Term(k, 3))
    IN  Sum3(Inner(1), Inner(2), Inner(3))

ReExpressInPlace(M, R_AE) ==
    LET N == [i \in 1..3 |-> [j \in 1..3 |->
                 IF i >= j THEN ReExpressedElement(M, R_AE, i, j) ELSE M[i][j]]]
    IN  [I |-> N, threw |-> DrakeAssertVoid(ThrowIfNotPhysicallyValid(N))]

\* ReExpress returning its copy of *this untouched.
ReExpressNotApplied(M, R_AE) == [I |-> M, threw |-> FALSE]

\* ReExpress(R_AE) const: a copy of *this, re-expressed in place.
ReExpress(M, R_AE) == ReExpressInPlace(M, R_AE)

\* R.transpose() of Eigen.
Transpose(R) == [i \in 1..3 |-> [j \in 1..3 |-> R[j][i]]]

-----------------------------------------------------------------------------
(* Inputs. *)

Moments == -1 .. MaxMoment

Masses == -1 .. MaxMass

\* The builds: DRAKE_ASSERT armed or not, T a real scalar type or not.
Builds == [armed : BOOLEAN, is_bool : BOOLEAN]

RealBuilds == {b \in Builds : b.is_bool}

ProductTriples == { <<0, 0, 0>>, <<-1, 0, 0>>, <<1, 1, 1>> }

\* Position vectors, expressed in the frame E.
Offsets == { <<0, 0, 0>>, <<0, 0, 1>>, <<-1, 1, 0>> }

\* Position vectors handed to a constructor, and vectors a tensor multiplies.
CtorOffsets == Offsets \cup { <<1, 0, 0>>, <<1, 1, 0>>, <<1, -1, 2>> }

\* Scalars of operator*= and operator/=.
Scalars == {-1, 0, 1, 2}

\* Rotation matrices R_AE with integer entries: the identity, a quarter turn
\* about z and a third of a turn about (1, 1, 1).
Rotations ==
    { << <<1, 0, 0>>, <<0, 1, 0>>, <<0, 0, 1>> >>,
      << <<0, -1, 0>>, <<1, 0, 0>>, <<0, 0, 1>> >>,
      << <<0, 0, 1>>, <<1, 0, 0>>, <<0, 1, 0>> >> }

\* Tensors handed to operator+= and operator-=, as the three-scalar and the
\* point-mass constructors build them.
ArgTensors ==
    { set_moments_and_products_no_validity_check(AllNaN, 1, 1, 1, 0, 0, 0),
      set_moments_and_products_no_validity_check(AllNaN, 0, 1, 1, 0, 0, 0),
      set_moments_and_products_no_validity_check(AllNaN, 1, 1, 2, -1, 0, 0) }

\* The moments of the tensors the documentation computes with.
ExampleMoments == { <<1, 2, 3>>, <<5, 5, 5>> }

NoArgs == [kind |-> "none"]

-----------------------------------------------------------------------------
(* The life of one tensor: construction, then a sequence of calls.         *)
(* Spec keeps no history of the calls (pre and args stay empty), so that   *)
(* sequences of calls can be explored; SpecCall records one call in full.  *)

\* The state right after a constructor or factory returned normally.
Constructed(c, how, recorded) ==
    /\ ~c.threw
    /\ I = c.I
    /\ op = "ctor"
    /\ args = IF recorded THEN how ELSE NoArgs
    /\ pre = AllNaN
    /\ threw = FALSE
    /\ ret = FALSE
    /\ ncalls = 0

InitTensor(builds, recorded) ==
    /\ build \in builds
    /\ \/ Constructed([I |-> AllNaN, threw |-> FALSE], [kind |-> "default"],
                      recorded)
       \/ \E a, b, c \in Moments :
            Constructed(RotationalInertia3(a, b, c),
                        [kind |-> "three", v |-> <<a, b, c>>], recorded)
       \/ \E v \in ExampleMoments :
            Constructed(RotationalInertia3(v[1], v[2], v[3]),
                        [kind |-> "three", v |-> v], recorded)
       \/ \E m \in Masses, p \in Offsets :
            Constructed(RotationalInertiaPointMass(m, p),
                        [kind |-> "point_mass", mass |-> m, p |-> p], recorded)
       \/ \E a \in Moments, p \in ProductTriples, skip \in BOOLEAN :
            Constructed(
                MakeFromMomentsAndProductsOfInertia(a, a, a, p[1], p[2], p[3], skip),
                [kind |-> "make", v |-> <<a, a, a>> \o p, skip |-> skip], recorded)

\* A call of an in-place method that ended as result = [I, threw] says.
Call(name, how, result, recorded) ==
    \E r \in {result} :
        /\ ncalls' = ncalls + 1
        /\ I' = r.I
        /\ op' = name
        /\ args' = IF recorded THEN how ELSE NoArgs
        /\ pre' = IF recorded THEN I ELSE AllNaN
        /\ threw' = r.threw
        /\ ret' = FALSE
        /\ UNCHANGED build

OpPlusEq(limit, recorded) ==
    /\ ncalls < limit
    /\ \E B \in ArgTensors :
          Call("+=", [kind |-> "tensor", B |-> B], PlusEq(I, B), recorded)

OpMinusEq(limit, recorded) ==
    /\ ncalls < limit
    /\ \E B \in ArgTensors :
          Call("-=", [kind |-> "tensor", B |-> B], MinusEq(I, B), recorded)

OpTimesEq(limit, recorded) ==
    /\ ncalls < limit
    /\ \E s \in Scalars :
          Call("*=", [kind |-> "scalar", s |-> s], TimesEq(I, s), recorded)

OpDivEq(limit, recorded) ==
    /\ ncalls < limit
    /\ \E s \in Scalars :
          /\ DrakeAssertVoid(ThrowIfDivideByZeroOrNegativeScalar(s))
                \/ IsExactQuotient(I, s)
          /\ Call("/=", [kind |-> "scalar", s |-> s], DivEq(I, s), recorded)

OpShiftFromCenterOfMassInPlace(limit, recorded) ==
    /\ ncalls < limit
    /\ \E m \in Masses, p \in Offsets :
          Call("ShiftFromCenterOfMassInPlace",
               [kind |-> "shift", mass |-> m, p |-> p],
               ShiftFromCenterOfMassInPlace(I, m, p), recorded)

OpShiftToCenterOfMassInPlace(limit, recorded) ==
    /\ ncalls < limit
    /\ \E m \in Masses, p \in Offsets :
          Call("ShiftToCenterOfMassInPlace",
               [kind |-> "shift", mass |-> m, p |-> p],
               ShiftToCenterOfMassInPlace(I, m, p), recorded)

OpShiftToThenAwayFromCenterOfMassInPlace(limit, recorded) ==
    /\ ncalls < limit
    /\ \E m \in Masses, p \in Offsets, q \in Offsets :
          Call("ShiftToThenAwayFromCenterOfMassInPlace",
               [kind |-> "shift2", mass |-> m, p |-> p, q |-> q],
               ShiftToThenAwayFromCenterOfMassInPlace(I, m, p, q), recorded)

OpReExpressInPlace(limit, recorded) ==
    /\ ncalls < limit
    /\ \E R \in Rotations :
          Call("ReExpressInPlace", [kind |-> "rotation", R |-> R],
               ReExpressInPlace(I, R), recorded)

Init == InitTensor(RealBuilds, FALSE)

\* Any sequence of at most MaxCalls calls of the public mutating methods.
Next ==
    \/ OpPlusEq(MaxCalls, FALSE)
    \/ OpMinusEq(MaxCalls, FALSE)
    \/ OpTimesEq(MaxCalls, FALSE)
    \/ OpDivEq(MaxCalls, FALSE)
    \/ OpShiftFromCenterOfMassInPlace(MaxCalls, FALSE)
    \/ OpShiftToCenterOfMassInPlace(MaxCalls, FALSE)
    \/ OpShiftToThenAwayFromCenterOfMassInPlace(MaxCalls, FALSE)
    \/ OpReExpressInPlace(MaxCalls, FALSE)

Spec == Init /\ [][Next]_vars

InitCall == InitTensor(Builds, TRUE)

\* One call of a public mutating method, recorded with its receiver and
\* arguments.
NextCall ==
    \/ OpPlusEq(1, TRUE)
    \/ OpMinusEq(1, TRUE)
    \/ OpTimesEq(1, TRUE)
    \/ OpDivEq(1, TRUE)
    \/ OpShiftFromCenterOfMassInPlace(1, TRUE)
    \/ OpShiftToCenterOfMassInPlace(1, TRUE)
    \/ OpShiftToThenAwayFromCenterOfMassInPlace(1, TRUE)
    \/ OpReExpressInPlace(1, TRUE)

SpecCall == InitCall /\ [][NextCall]_vars

-----------------------------------------------------------------------------
(* The result-returning forms: a copy of the receiver is made and the      *)
(* in-place method is called on the copy.  Each yields [I, threw], I the   *)
(* tensor returned.                                                        *)

OperatorPlus(M, I_BP_E) == PlusEq(M, I_BP_E)

OperatorMinus(M, I_BP_E) == MinusEq(M, I_BP_E)

ShiftFromCenterOfMass(M, mass, p_BcmQ_E) ==
    ShiftFromCenterOfMassInPlace(M, mass, p_BcmQ_E)

\* The copy shifted away from the centre of mass instead of towards it.
ShiftToCenterOfMassShiftingAway(M, mass, p_QBcm_E) ==
    ShiftFromCenterOfMassInPlace(M, mass, p_QBcm_E)

ShiftToCenterOfMass(M, mass, p_QBcm_E) ==
    ShiftToCenterOfMassInPlace(M, mass, p_QBcm_E)

ShiftToThenAwayFromCenterOfMass(M, mass, p_PBcm_E, p_QBcm_E) ==
    ShiftToThenAwayFromCenterOfMassInPlace(M, mass, p_PBcm_E, p_QBcm_E)

-----------------------------------------------------------------------------
(* Expressions over a constructed tensor: SpecLaw evaluates one            *)
(* result-returning expression on the receiver, which stays as it is, and  *)
(* keeps the tensor returned in ret.                                       *)

Eval(name, how, result) ==
    \E r \in {result} :
        /\ ncalls' = ncalls + 1
        /\ op' = name
        /\ args' = how
        /\ pre' = I
        /\ threw' = r.threw
        /\ ret' = IF r.threw THEN AllNaN ELSE r.I
        /\ UNCHANGED <<build, I>>

\* RotationalInertia(mass, p_PQ_E), a temporary.
EvalPointMass ==
    /\ ncalls < 1
    /\ \E m \in Masses, p \in Offsets :
          Eval("RotationalInertia(mass, p)",
               [kind |-> "shift", mass |-> m, p |-> p],
               RotationalInertiaPointMass(m, p))

\* I.ShiftFromCenterOfMass(mass, p).
EvalShiftFromCenterOfMass ==
    /\ ncalls < 1
    /\ \E m \in Masses, p \in Offsets :
          Eval("ShiftFromCenterOfMass",
               [kind |-> "shift", mass |-> m, p |-> p],
               ShiftFromCenterOfMass(I, m, p))

\* I.ShiftToCenterOfMass(mass, p).
EvalShiftToCenterOfMass ==
    /\ ncalls < 1
    /\ \E m \in Masses, p \in Offsets :
          Eval("ShiftToCenterOfMass",
               [kind |-> "shift", mass |-> m, p |-> p],
               ShiftToCenterOfMass(I, m, p))

\* I.ShiftToThenAwayFromCenterOfMass(mass, p, q).
EvalShiftToThenAwayFromCenterOfMass ==
    /\ ncalls < 1
    /\ \E m \in Masses, p \in Offsets, q \in Offsets :
          Eval("ShiftToThenAwayFromCenterOfMass",
               [kind |-> "shift2", mass |-> m, p |-> p, q |-> q],
               ShiftToThenAwayFromCenterOfMass(I, m, p, q))

\* I.ShiftToCenterOfMass(mass, d).ShiftFromCenterOfMass(mass, d).
EvalShiftToThenFrom ==
    /\ ncalls < 1
    /\ \E m \in Masses, d \in Offsets :
          LET shifted == ShiftToCenterOfMass(I, m, d)
          IN  Eval("ShiftToCenterOfMass.ShiftFromCenterOfMass",
                   [kind |-> "shift", mass |-> m, p |-> d],
                   IF shifted.threw THEN shifted
                   ELSE ShiftFromCenterOfMass(shifted.I, m, d))

\* (I + B) - B.
EvalPlusMinus ==
    /\ ncalls < 1
    /\ \E B \in ArgTensors :
          LET sum == OperatorPlus(I, B)
          IN  Eval("(A + B) - B", [kind |-> "tensor", B |-> B],
                   IF sum.threw THEN sum ELSE OperatorMinus(sum.I, B))

\* A call of a method that returns something other than a tensor: the record
\* of the call holds the value returned, if the call did not throw, next to
\* the arguments, and ret, which holds tensors, holds none.
EvalValue(name, how, thrown) ==
    /\ ncalls' = ncalls + 1
    /\ op' = name
    /\ args' = how
    /\ pre' = I
    /\ threw' = thrown
    /\ ret' = AllNaN
    /\ UNCHANGED <<build, I>>

\* std::abs and std::min on scalars that are not NaN.
abs(x) == IF x < 0 THEN 0 - x ELSE x

min(a, b) == IF b < a THEN b ELSE a

\* lpNorm<Eigen::Infinity>() of a 3-vector without NaN.
lpNormInfinity(v) ==
    LET m == IF abs(v[1]) >= abs(v[2]) THEN abs(v[1]) ELSE abs(v[2])
    IN  IF m >= abs(v[3]) THEN m ELSE abs(v[3])

\* 0.5 * abs(Trace()), for a trace that is even: the half of an odd trace is
\* not among the model's scalars and the calls that need it are not made.
CalcMaximumPossibleMomentOfInertia(M) == abs(Trace(M)) \div 2

HasEvenTrace(M) == ~IsNaN(M) /\ Trace(M) % 2 = 0

IsApproxMomentsAndProducts(M, other, epsilon) ==
    LET moment_difference ==
            [k \in 1..3 |-> get_moments(M)[k] - get_moments(other)[k]]
        product_difference ==
            [k \in 1..3 |-> get_products(M)[k] - get_products(other)[k]]
        moment_max == lpNormInfinity(moment_difference)
        product_max == lpNormInfinity(product_difference)
    IN  moment_max <= epsilon /\ product_max <= epsilon

IsNearlyEqualTo(M, other, precision) ==
    LET I_maxA == CalcMaximumPossibleMomentOfInertia(M)
        I_maxB == CalcMaximumPossibleMomentOfInertia(other)
        I_test == min(I_maxA, I_maxB)
        epsilon == precision * I_test
    IN  IsApproxMomentsAndProducts(M, other, epsilon)

\* The precision argument of IsNearlyEqualTo.
Precisions == {0, 1, 2}

\* A.IsNearlyEqualTo(B, precision), T a real scalar type.
EvalIsNearlyEqualTo ==
    /\ ncalls < 1
    /\ build.is_bool
    /\ HasEvenTrace(I)
    /\ \E B \in ArgTensors, precision \in Precisions :
          /\ HasEvenTrace(B)
          /\ EvalValue("IsNearlyEqualTo",
                       [kind |-> "nearly", B |-> B, precision |-> precision,
                        returned |-> IsNearlyEqualTo(I, B, precision)],
                       FALSE)

\* A call of an in-place operator, which returns *this: ret is the receiver
\* as the call left it, or nothing after a throw.
CallReturningThis(name, how, result) ==
    \E r \in {result} :
        /\ ncalls' = ncalls + 1
        /\ I' = r.I
        /\ op' = name
        /\ args' = how
        /\ pre' = I
        /\ threw' = r.threw
        /\ ret' = IF r.threw THEN AllNaN ELSE r.I
        /\ UNCHANGED build

TimesEqReturningThis ==
    /\ ncalls < 1
    /\ \E s \in Scalars :
          CallReturningThis("*=", [kind |-> "scalar", s |-> s], TimesEq(I, s))

DivEqReturningThis ==
    /\ ncalls < 1
    /\ \E s \in Scalars :
          /\ DrakeAssertVoid(ThrowIfDivideByZeroOrNegativeScalar(s))
                \/ IsExactQuotient(I, s)
          /\ CallReturningThis("/=", [kind |-> "scalar", s |-> s], DivEq(I, s))

\* ReExpress(R_AE), a temporary.
EvalReExpress ==
    /\ ncalls < 1
    /\ \E R \in Rotations :
          Eval("ReExpress", [kind |-> "rotation", R |-> R], ReExpress(I, R))

\* ReExpress(R_AE).ReExpress(R_AE^T).
EvalReExpressThenBack ==
    /\ ncalls < 1
    /\ \E R \in Rotations :
          LET there == ReExpress(I, R)
          IN  Eval("ReExpress.ReExpress", [kind |-> "rotation", R |-> R],
                   IF there.threw THEN there
                   ELSE ReExpress(there.I, Transpose(R)))

\* Principal moments and axes.  The body of
\* CalcPrincipalMomentsAndMaybeAxesOfInertia is in rotational_inertia.cc; it
\* is modelled as the symmetric eigen-decomposition in exact arithmetic: the
\* principal moments are the numbers lambda for which S - lambda * identity
\* is singular, each as often as the rank falls short of 3, and the calls
\* made are those on tensors whose three principal moments are integers.
Det2(a, b, c, d) == a * d - b * c

Det3(A) ==
    A[1][1] * Det2(A[2][2], A[2][3], A[3][2], A[3][3])
        - A[1][2] * Det2(A[2][1], A[2][3], A[3][1], A[3][3])
        + A[1][3] * Det2(A[2][1], A[2][2], A[3][1], A[3][2])

MinusLambda(S, lambda) ==
    [i \in 1..3 |-> [j \in 1..3 |->
        IF i = j THEN S[i][j] - lambda ELSE S[i][j]]]

\* 3 - rank(A), by the minors of A.
Nullity(A) ==
    IF \A i, j \in 1..3 : A[i][j] = 0 THEN 3
    ELSE IF \A i, k, j, l \in 1..3 :
               (i < k /\ j < l)
                  => Det2(A[i][j], A[i][l], A[k][j], A[k][l]) = 0
         THEN 2
    ELSE IF Det3(A) = 0 THEN 1
    ELSE 0

\* No eigenvalue of S is larger in size than the largest absolute row sum.
SpectralBound(S) ==
    LET row(i) == abs(S[i][1]) + abs(S[i][2]) + abs(S[i][3])
        m == IF row(1) >= row(2) THEN row(1) ELSE row(2)
    IN  IF m >= row(3) THEN m ELSE row(3)

RECURSIVE EigenvaluesFrom(_, _, _)
EigenvaluesFrom(S, lambda, hi) ==
    IF lambda > hi THEN << >>
    ELSE [k \in 1..Nullity(MinusLambda(S, lambda)) |-> lambda]
             \o EigenvaluesFrom(S, lambda + 1, hi)

\* The integer eigenvalues of S in ascending order, each with its
\* multiplicity.
Eigenvalues(S) == EigenvaluesFrom(S, 0 - SpectralBound(S), SpectralBound(S))

HasIntegerPrincipalMoments(M) ==
    ~IsNaN(M) /\ Len(Eigenvalues(CopyToFullMatrix3(M))) = 3

Identity3 == << <<1, 0, 0>>, <<0, 1, 0>>, <<0, 0, 1>> >>

\* S * R = R * diag(p): the columns of R are eigenvectors for p[1], p[2], p[3].
IsPrincipalFrame(S, R, p) ==
    \A i, k \in 1..3 :
        S[i][1] * R[1][k] + S[i][2] * R[2][k] + S[i][3] * R[3][k]
            = R[i][k] * p[k]

\* The rotations R_EA the solver may return, among the rotations of the
\* model: the identity when the three principal moments coincide, else any
\* whose columns are principal directions in the order of the moments.
PrincipalAxes(S, p) ==
    IF p[1] = p[3] THEN {Identity3}
    ELSE {R \in Rotations : IsPrincipalFrame(S, R, p)}

\* It throws when an element is NaN or T is symbolic; else its principal
\* moments and the set of rotations it may return.
CalcPrincipalMomentsAndMaybeAxesOfInertia(M) ==
    IF IsNaN(M) \/ ~build.is_bool
    THEN [threw |-> TRUE, moments |-> << >>, axes |-> {}]
    ELSE LET S == CopyToFullMatrix3(M)
             p == Eigenvalues(S)
         IN  [threw |-> FALSE, moments |-> p, axes |-> PrincipalAxes(S, p)]

\* The stored moments returned as they are.
CalcPrincipalMomentsOfInertiaFromDiagonal(M) ==
    [threw |-> IsNaN(M) \/ ~build.is_bool, moments |-> get_moments(M)]

CalcPrincipalMomentsOfInertia(M) ==
    LET r == CalcPrincipalMomentsAndMaybeAxesOfInertia(M)
    IN  [threw |-> r.threw, moments |-> r.moments]

CalcPrincipalMomentsAndAxesOfInertia(M) ==
    CalcPrincipalMomentsAndMaybeAxesOfInertia(M)

EvalCalcPrincipalMomentsOfInertia ==
    /\ ncalls < 1
    /\ IsNaN(I) \/ HasIntegerPrincipalMoments(I)
    /\ \E r \in {CalcPrincipalMomentsOfInertia(I)} :
          EvalValue("CalcPrincipalMomentsOfInertia",
                    IF r.threw THEN [kind |-> "principal"]
                    ELSE [kind |-> "principal", returned |-> r.moments],
                    r.threw)

EvalCalcPrincipalMomentsAndAxesOfInertia ==
    /\ ncalls < 1
    /\ IsNaN(I) \/ HasIntegerPrincipalMoments(I)
    /\ \E r \in {CalcPrincipalMomentsAndAxesOfInertia(I)} :
          \/ /\ r.threw
             /\ EvalValue("CalcPrincipalMomentsAndAxesOfInertia",
                          [kind |-> "principal"], TRUE)
          \/ /\ ~r.threw
             /\ \E R \in r.axes :
                   EvalValue("CalcPrincipalMomentsAndAxesOfInertia",
                             [kind |-> "principal", moments |-> r.moments,
                              R_EA |-> R],
                             FALSE)

\* operator*(w_E) reading b from the upper triangle.
TimesVectorReadingUpperTriangle(M, w_E) ==
    LET a == Elem(M, 0, 0)
        b == Elem(M, 0, 1)
        c == Elem(M, 2, 0)
        d == Elem(M, 1, 1)
        e == Elem(M, 2, 1)
        f == Elem(M, 2, 2)
        x == w_E[1]
        y == w_E[2]
        z == w_E[3]
    IN  << Plus(Plus(Times(a, x), Times(b, y)), Times(c, z)),
           Plus(Plus(Times(b, x), Times(d, y)), Times(e, z)),
           Plus(Plus(Times(c, x), Times(e, y)), Times(f, z)) >>

\* operator*(const Vector3<T>& w_E) const.
TimesVector(M, w_E) ==
    LET a == Elem(M, 0, 0)
        b == Elem(M, 1, 0)
        c == Elem(M, 2, 0)
        d == Elem(M, 1, 1)
        e == Elem(M, 2, 1)
        f == Elem(M, 2, 2)
        x == w_E[1]
        y == w_E[2]
        z == w_E[3]
    IN  << Plus(Plus(Times(a, x), Times(b, y)), Times(c, z)),
           Plus(Plus(Times(b, x), Times(d, y)), Times(e, z)),
           Plus(Plus(Times(c, x), Times(e, y)), Times(f, z)) >>

\* tensor * vector.
EvalTimesVector ==
    /\ ncalls < 1
    /\ \E w \in CtorOffsets :
          EvalValue("I * w",
                    [kind |-> "vector", w |-> w, returned |-> TimesVector(I, w)],
                    FALSE)

\* tensor * scalar, a temporary.
EvalTimes ==
    /\ ncalls < 1
    /\ \E s \in Scalars :
          Eval("I * s", [kind |-> "scalar", s |-> s], OperatorTimes(I, s))

\* scalar * tensor, a temporary.
EvalScalarTimes ==
    /\ ncalls < 1
    /\ \E s \in Scalars :
          Eval("s * I", [kind |-> "scalar", s |-> s], ScalarTimes(s, I))

\* tensor / scalar, a temporary.
EvalDivide ==
    /\ ncalls < 1
    /\ \E s \in Scalars :
          /\ DrakeAssertVoid(ThrowIfDivideByZeroOrNegativeScalar(s))
                \/ IsExactQuotient(I, s)
          /\ Eval("I / s", [kind |-> "scalar", s |-> s], OperatorDivide(I, s))

NextLaw ==
    \/ EvalPointMass
    \/ EvalShiftFromCenterOfMass
    \/ EvalShiftToCenterOfMass
    \/ EvalShiftToThenAwayFromCenterOfMass
    \/ EvalShiftToThenFrom
    \/ EvalPlusMinus
    \/ EvalTimes
    \/ EvalScalarTimes
    \/ TimesEqReturningThis
    \/ EvalDivide
    \/ DivEqReturningThis
    \/ EvalIsNearlyEqualTo
    \/ EvalReExpress
    \/ EvalReExpressThenBack
    \/ EvalCalcPrincipalMomentsOfInertia
    \/ EvalCalcPrincipalMomentsAndAxesOfInertia
    \/ EvalTimesVector

SpecLaw == InitCall /\ [][NextLaw]_vars

-----------------------------------------------------------------------------
(* Construction: SpecCtor starts before the object exists, makes one call  *)
(* of a constructor or factory, which may throw, and then asks the tensor  *)
(* built whether it could be physically valid.                             *)

\* Moments and products handed to the constructors.
CtorMoments == Moments \cup {NaN}

CtorProducts == {-1, 0, 1, NaN}

InitCtor ==
    /\ build \in Builds
    /\ I = AllNaN
    /\ op = "none"
    /\ args = NoArgs
    /\ pre = AllNaN
    /\ threw = FALSE
    /\ ret = FALSE
    /\ ncalls = 0

\* A call of a constructor or factory that ended as c = [I, threw] says; no
\* object exists after a throw.
Construct(name, how, c) ==
    /\ op' = name
    /\ args' = how
    /\ I' = IF c.threw THEN AllNaN ELSE c.I
    /\ threw' = c.threw
    /\ UNCHANGED <<build, pre, ret, ncalls>>

CtorDefault ==
    /\ op = "none"
    /\ Construct("RotationalInertia()", NoArgs, [I |-> AllNaN, threw |-> FALSE])

CtorThree ==
    /\ op = "none"
    /\ \E a, b, c \in CtorMoments :
          Construct("RotationalInertia(Ixx, Iyy, Izz)",
                    [kind |-> "values", v |-> <<a, b, c, 0, 0, 0>>],
                    RotationalInertia3(a, b, c))

CtorSix ==
    /\ op = "none"
    /\ \E a, b, c \in CtorMoments, d, e, f \in CtorProducts :
          Construct("RotationalInertia(Ixx, Iyy, Izz, Ixy, Ixz, Iyz)",
                    [kind |-> "values", v |-> <<a, b, c, d, e, f>>],
                    RotationalInertia6(a, b, c, d, e, f))

CtorTriaxiallySymmetric ==
    /\ op = "none"
    /\ \E a \in CtorMoments :
          Construct("TriaxiallySymmetric",
                    [kind |-> "values", v |-> <<a, a, a, 0, 0, 0>>],
                    TriaxiallySymmetric(a))

CtorMakeFromMomentsAndProductsOfInertia ==
    /\ op = "none"
    /\ \E a, b \in CtorMoments, d, e, f \in CtorProducts, skip \in BOOLEAN :
          Construct("MakeFromMomentsAndProductsOfInertia",
                    [kind |-> "values", v |-> <<a, b, b, d, e, f>>,
                     skip_validity_check |-> skip],
                    MakeFromMomentsAndProductsOfInertia(a, b, b, d, e, f, skip))

CtorPointMass ==
    /\ op = "none"
    /\ \E m \in Masses, p \in CtorOffsets :
          Construct("RotationalInertia(mass, p)",
                    [kind |-> "point_mass", mass |-> m, p |-> p],
                    RotationalInertiaPointMass(m, p))

\* CouldBePhysicallyValid() asked of the tensor built, T a real scalar type.
QueryCouldBePhysicallyValid ==
    /\ op # "none"
    /\ ~threw
    /\ ncalls = 0
    /\ build.is_bool
    /\ ncalls' = 1
    /\ ret' = CouldBePhysicallyValid(I)
    /\ UNCHANGED <<build, I, op, args, pre, threw>>

NextCtor ==
    \/ CtorDefault
    \/ CtorThree
    \/ CtorSix
    \/ CtorTriaxiallySymmetric
    \/ CtorMakeFromMomentsAndProductsOfInertia
    \/ CtorPointMass
    \/ QueryCouldBePhysicallyValid

SpecCtor == InitCtor /\ [][NextCtor]_vars

-----------------------------------------------------------------------------
(* Properties. *)

\* The build throws on a failed validity check: Debug build, real scalar type.
ChecksEnabled == build.armed /\ build.is_bool

\* C1 (as claimed): with the checks enabled, a call of a public mutating
\* method on a receiver that could be physically valid either throws or
\* leaves a receiver that could be physically valid.
C1_CallFailsOrLeavesValidReceiver ==
    [][(ChecksEnabled /\ CouldBePhysicallyValid(I))
          => (threw' \/ CouldBePhysicallyValid(I'))]_vars

\* The tensor operator-= subtracts in the recorded call: its argument, or the
\* point-mass tensor ShiftToCenterOfMassInPlace builds from its arguments.
Subtrahend ==
    IF op = "-=" THEN [I |-> args.B, threw |-> FALSE]
    ELSE RotationalInertiaPointMass(args.mass, args.p)

SubtractionFailed ==
    /\ op \in {"-=", "ShiftToCenterOfMassInPlace"}
    /\ threw
    /\ ~Subtrahend.threw

\* C2 (as claimed): when operator-=, called directly or by
\* ShiftToCenterOfMassInPlace, throws because the difference fails the
\* validity check, the receiver's six values are those before the call.
C2_FailedSubtractionLeavesReceiver ==
    SubtractionFailed => Six(I) = Six(pre)

\* C2 (amended): when operator-= throws on its validity check, the receiver
\* holds the element-wise difference, which is not physically valid; the
\* receiver is as before the call only when ShiftToCenterOfMassInPlace throws
\* while building the point-mass tensor.
C2_FailedSubtractionLeavesDifference ==
    /\ SubtractionFailed =>
          /\ I = MinusEqualsUnchecked(pre, Subtrahend.I)
          /\ ~CouldBePhysicallyValid(I)
    /\ (op = "ShiftToCenterOfMassInPlace" /\ threw /\ Subtrahend.threw) =>
          I = pre

C2_Witness ==
    /\ op = "-="
    /\ threw
    /\ CouldBePhysicallyValid(pre)
    /\ Six(I) # Six(pre)
    /\ I = MinusEqualsUnchecked(pre, args.B)

\* ShiftToCenterOfMassInPlace(mass, p) then ShiftFromCenterOfMassInPlace(mass,
\* q) on a copy of M.
TwoStepShift(M, mass, p, q) ==
    LET to == ShiftToCenterOfMassInPlace(M, mass, p)
    IN  IF to.threw THEN to ELSE ShiftFromCenterOfMassInPlace(to.I, mass, q)

\* C3 (as claimed): on a tensor that could be physically valid,
\* ShiftToThenAwayFromCenterOfMass(m, p, q) has the outcome of
\* ShiftToCenterOfMassInPlace(m, p) followed by
\* ShiftFromCenterOfMassInPlace(m, q) on a copy: both throw or both succeed
\* with the same six values.
C3_OneStepShiftIsTwoStepShift ==
    (op = "ShiftToThenAwayFromCenterOfMass" /\ CouldBePhysicallyValid(pre)) =>
        LET two == TwoStepShift(pre, args.mass, args.p, args.q)
        IN  /\ threw = two.threw
            /\ ~threw => Six(ret) = Six(two.I)

\* C3 (amended): for a mass that is not negative, whenever the two calls
\* ShiftToCenterOfMassInPlace(m, p), ShiftFromCenterOfMassInPlace(m, q) both
\* succeed on a copy, ShiftToThenAwayFromCenterOfMass(m, p, q) succeeds with
\* the same six values.
C3_OneStepShiftWhenTwoStepSucceeds ==
    (op = "ShiftToThenAwayFromCenterOfMass" /\ args.mass >= 0) =>
        LET two == TwoStepShift(pre, args.mass, args.p, args.q)
        IN  ~two.threw => (~threw /\ Six(ret) = Six(two.I))

C3_Witness ==
    /\ op = "ShiftToThenAwayFromCenterOfMass"
    /\ ChecksEnabled
    /\ args.mass = 1
    /\ args.p = <<0, 0, 1>>
    /\ args.q = <<-1, 1, 0>>
    /\ ~threw
    /\ ~TwoStepShift(pre, args.mass, args.p, args.q).threw
    /\ Six(ret) # Six(pre)

\* C4 (as claimed): with the checks enabled
\* ShiftToThenAwayFromCenterOfMassInPlace, called on a receiver that could be
\* physically valid, throws only for a negative mass, never for the difference
\* of the two point-mass tensors, and it throws whenever the shifted tensor
\* could not be physically valid.
C4_ShiftValidatesFinalResult ==
    (/\ op = "ShiftToThenAwayFromCenterOfMassInPlace"
     /\ ChecksEnabled
     /\ CouldBePhysicallyValid(pre)) =>
        /\ threw => args.mass < 0
        /\ ~threw => CouldBePhysicallyValid(I)

C6_SumMinusSummand ==
    (op = "(A + B) - B" /\ ~IsNaN(pre) /\ ~threw) => Six(ret) = Six(pre)

C6_Witness ==
    /\ op = "(A + B) - B"
    /\ ChecksEnabled
    /\ get_products(args.B) # <<0, 0, 0>>
    /\ get_products(pre) # <<0, 0, 0>>
    /\ ~threw
    /\ Six(ret) = Six(pre)

\* C7: the point-mass constructor for mass m and offset (x, y, z) builds the
\* moments (m(yy + zz), m(xx + zz), m(xx + yy)) and the products (-mxy, -mxz,
\* -myz); mass 2 at (1, 1, 0) gives moments (2, 2, 4), Ixy = -2 and no other
\* product.
C7_PointMassTensor ==
    op = "RotationalInertia(mass, p)" =>
        LET m == args.mass
            x == args.p[1]
            y == args.p[2]
            z == args.p[3]
        IN  /\ ~threw =>
                Six(I) = << m * (y * y + z * z), m * (x * x + z * z),
                            m * (x * x + y * y),
                            0 - m * x * y, 0 - m * x * z, 0 - m * y * z >>
            /\ (m = 2 /\ args.p = <<1, 1, 0>>) =>
                (~threw /\ Six(I) = <<2, 2, 4, -2, 0, 0>>)

C7_Witness ==
    /\ op = "RotationalInertia(mass, p)"
    /\ ChecksEnabled
    /\ args.mass = 2
    /\ args.p = <<1, 1, 0>>
    /\ Six(I) = <<2, 2, 4, -2, 0, 0>>

\* -p of Eigen.
NegateVector(p) == <<Negate(p[1]), Negate(p[2]), Negate(p[3])>>

\* The calls a and b end alike: both throw, or both return the same tensor.
SameOutcome(a, b) == a.threw = b.threw /\ (~a.threw => a.I = b.I)

Outcome == [I |-> ret, threw |-> threw]

\* C8: the point-mass constructor, ShiftFromCenterOfMass, ShiftToCenterOfMass
\* and ShiftToThenAwayFromCenterOfMass end alike when an offset argument is
\* replaced by its negation.
C8_NegatedOffset ==
    /\ op = "RotationalInertia(mass, p)" =>
          SameOutcome(Outcome,
              RotationalInertiaPointMass(args.mass, NegateVector(args.p)))
    /\ op = "ShiftFromCenterOfMass" =>
          SameOutcome(Outcome,
              ShiftFromCenterOfMass(pre, args.mass, NegateVector(args.p)))
    /\ op = "ShiftToCenterOfMass" =>
          SameOutcome(Outcome,
              ShiftToCenterOfMass(pre, args.mass, NegateVector(args.p)))
    /\ op = "ShiftToThenAwayFromCenterOfMass" =>
          /\ SameOutcome(Outcome,
                 ShiftToThenAwayFromCenterOfMass(
                     pre, args.mass, NegateVector(args.p), args.q))
          /\ SameOutcome(Outcome,
                 ShiftToThenAwayFromCenterOfMass(
                     pre, args.mass, args.p, NegateVector(args.q)))
          /\ SameOutcome(Outcome,
                 ShiftToThenAwayFromCenterOfMass(
                     pre, args.mass, NegateVector(args.p),
                     NegateVector(args.q)))

C8_Witness ==
    /\ op = "ShiftToThenAwayFromCenterOfMass"
    /\ ChecksEnabled
    /\ args.mass = 2
    /\ args.p = <<-1, 1, 0>>
    /\ args.q = <<0, 0, 1>>
    /\ ~threw
    /\ get_products(ret) # get_products(pre)

\* The conditions on the stored moments alone: no NaN among the six values,
\* no negative moment, the three triangle inequalities.
StoredMomentsCouldBeValid(M) ==
    LET m == get_moments(M)
    IN  /\ \A k \in 1..6 : ~isnan(Six(M)[k])
        /\ m[1] >= 0 /\ m[2] >= 0 /\ m[3] >= 0
        /\ m[1] + m[2] >= m[3] /\ m[1] + m[3] >= m[2] /\ m[2] + m[3] >= m[1]

Queried == op # "none" /\ ncalls = 1

\* C9 (as claimed): CouldBePhysicallyValid() is true exactly when no stored
\* value is NaN, no moment is negative and the stored moments satisfy the
\* triangle inequalities, whatever the products of inertia.
C9_ValidIffStoredMomentsValid ==
    Queried => (ret <=> StoredMomentsCouldBeValid(I))

\* C9 (amended): CouldBePhysicallyValid() is true only when no stored value is
\* NaN, no moment is negative and the stored moments satisfy the triangle
\* inequalities; it is true whenever these hold and the products are zero; and
\* it constrains the products: when true, the square of each product is at most
\* the product of the two moments of its axes, and twice each product is at
\* most the moment of the third axis in absolute value.
C9_ValidConstrainsProducts ==
    Queried =>
        LET m == get_moments(I)
            p == get_products(I)
        IN  /\ ret => StoredMomentsCouldBeValid(I)
            /\ (StoredMomentsCouldBeValid(I) /\ p = <<0, 0, 0>>) => ret
            /\ ret => /\ p[1] * p[1] <= m[1] * m[2]
                      /\ p[2] * p[2] <= m[1] * m[3]
                      /\ p[3] * p[3] <= m[2] * m[3]
                      /\ 4 * p[1] * p[1] <= m[3] * m[3]
                      /\ 4 * p[2] * p[2] <= m[2] * m[2]
                      /\ 4 * p[3] * p[3] <= m[1] * m[1]

C9_Witness ==
    /\ Queried
    /\ ret
    /\ get_products(I) = <<1, 0, 0>>

\* The constructors and factory calls that check what they build.
CheckedConstruction ==
    \/ /\ ChecksEnabled
       /\ op \in {"RotationalInertia(Ixx, Iyy, Izz)",
                  "RotationalInertia(Ixx, Iyy, Izz, Ixy, Ixz, Iyz)",
                  "TriaxiallySymmetric"}
    \/ /\ build.is_bool
       /\ op = "MakeFromMomentsAndProductsOfInertia"
       /\ ~args.skip_validity_check

\* C10: with the checks enabled the three-scalar and six-scalar constructors
\* and TriaxiallySymmetric, and with a real scalar type
\* MakeFromMomentsAndProductsOfInertia without skip_validity_check, throw
\* exactly when the values given could not be physically valid, and otherwise
\* build a tensor with exactly the six values given.
C10_CheckedConstruction ==
    CheckedConstruction =>
        LET v == args.v
            M == set_moments_and_products_no_validity_check(
                     AllNaN, v[1], v[2], v[3], v[4], v[5], v[6])
        IN  /\ threw <=> ~CouldBePhysicallyValid(M)
            /\ threw => ~(StoredMomentsCouldBeValid(M)
                            /\ get_products(M) = <<0, 0, 0>>)
            /\ ~StoredMomentsCouldBeValid(M) => threw
            /\ ~threw => Six(I) = v

C10_Witness ==
    /\ ChecksEnabled
    /\ op = "RotationalInertia(Ixx, Iyy, Izz, Ixy, Ixz, Iyz)"
    /\ args.v = <<1, 1, -1, 0, 0, 0>>
    /\ threw

-----------------------------------------------------------------------------
(* Unchecked operations: SpecSkip builds a tensor with                     *)
(* MakeFromMomentsAndProductsOfInertia(..., skip_validity_check = true),   *)
(* applies at most one operation that has no validity check, and then asks *)
(* the tensor whether it could be physically valid.                        *)

\* The private constructor from a 3x3 matrix: it copies the whole matrix.
RotationalInertiaMatrix(Mat, skip_validity_check) ==
    [I |-> Mat,
     threw |-> ~skip_validity_check
                  /\ DrakeAssertVoid(ThrowIfNotPhysicallyValid(Mat))]

\* cast<Scalar>(): the elementwise cast keeps the values of the model.
cast(M) == RotationalInertiaMatrix(M, TRUE)

MultiplyByScalarSkipValidityCheck(M, s) ==
    [I |-> TriangularTimes(M, s), threw |-> FALSE]

CtorMakeSkippingValidityCheck ==
    /\ op = "none"
    /\ \E a, b \in CtorMoments, d, e, f \in CtorProducts :
          Construct("MakeFromMomentsAndProductsOfInertia",
                    [kind |-> "values", v |-> <<a, b, b, d, e, f>>,
                     skip_validity_check |-> TRUE],
                    MakeFromMomentsAndProductsOfInertia(a, b, b, d, e, f, TRUE))

UncheckedPlusEq ==
    /\ op = "MakeFromMomentsAndProductsOfInertia"
    /\ ~threw
    /\ \E B \in ArgTensors :
          Call("+=", [kind |-> "tensor", B |-> B], PlusEq(I, B), TRUE)

UncheckedMultiplyByScalar ==
    /\ op = "MakeFromMomentsAndProductsOfInertia"
    /\ ~threw
    /\ \E s \in Scalars :
          Call("MultiplyByScalarSkipValidityCheck",
               [kind |-> "scalar", s |-> s],
               MultiplyByScalarSkipValidityCheck(I, s), TRUE)

\* cast<Scalar>() to a scalar type that is is_bool or is not; the tensor
\* followed from here on is the one cast() returned.
UncheckedCast ==
    /\ op = "MakeFromMomentsAndProductsOfInertia"
    /\ ~threw
    /\ \E to_is_bool \in BOOLEAN, r \in {cast(I)} :
          /\ build' = [build EXCEPT !.is_bool = to_is_bool]
          /\ ncalls' = ncalls + 1
          /\ I' = r.I
          /\ op' = "cast"
          /\ args' = [kind |-> "scalar_type", is_bool |-> to_is_bool]
          /\ pre' = I
          /\ threw' = r.threw
          /\ ret' = FALSE

\* The next explicit CouldBePhysicallyValid() query, T a real scalar type.
QueryAfterUnchecked ==
    /\ op \notin {"none", "CouldBePhysicallyValid"}
    /\ ~threw
    /\ build.is_bool
    /\ op' = "CouldBePhysicallyValid"
    /\ args' = NoArgs
    /\ pre' = I
    /\ ret' = CouldBePhysicallyValid(I)
    /\ UNCHANGED <<build, I, threw, ncalls>>

NextSkip ==
    \/ CtorMakeSkippingValidityCheck
    \/ UncheckedPlusEq
    \/ UncheckedMultiplyByScalar
    \/ UncheckedCast
    \/ QueryAfterUnchecked

SpecSkip == InitCtor /\ [][NextSkip]_vars

\* C11: MakeFromMomentsAndProductsOfInertia with skip_validity_check = true
\* never throws and stores exactly the six values it is given; operator+=,
\* MultiplyByScalarSkipValidityCheck and cast applied to the tensor never
\* throw either; and the next CouldBePhysicallyValid() query answers false
\* when a stored value is NaN, a moment is negative or the stored moments
\* violate the triangle inequality.
C11_SkippedCheckNeverThrows ==
    /\ ~threw
    /\ op = "MakeFromMomentsAndProductsOfInertia" => Six(I) = args.v
    /\ (op = "CouldBePhysicallyValid" /\ ~StoredMomentsCouldBeValid(pre))
          => ret = FALSE

C11_Witness ==
    /\ ChecksEnabled
    /\ op = "CouldBePhysicallyValid"
    /\ ncalls = 1
    /\ ~StoredMomentsCouldBeValid(pre)
    /\ ret = FALSE

\* The tensor a recorded multiplication or division produced: the receiver
\* of the in-place forms, the value returned by the others.
Scaled == IF op \in {"*=", "/="} THEN I ELSE ret

\* C12: with the checks enabled, operator*=, tensor * s and s * tensor throw
\* exactly when s < 0; for s >= 0 each of the six values is multiplied by s,
\* so that moments (1, 2, 3) times 2 are (2, 4, 6); and s * tensor ends as
\* tensor * s does.
C12_MultiplyByScalar ==
    (ChecksEnabled /\ op \in {"*=", "I * s", "s * I"}) =>
        /\ threw <=> args.s < 0
        /\ (~threw /\ ~IsNaN(pre)) =>
              \A k \in 1..6 : Six(Scaled)[k] = args.s * Six(pre)[k]
        /\ (Six(pre) = <<1, 2, 3, 0, 0, 0>> /\ args.s = 2) =>
              Six(Scaled) = <<2, 4, 6, 0, 0, 0>>
        /\ op = "I * s" => SameOutcome(Outcome, ScalarTimes(args.s, pre))
        /\ op = "s * I" => SameOutcome(Outcome, OperatorTimes(pre, args.s))

C12_Witness ==
    /\ ChecksEnabled
    /\ op = "s * I"
    /\ Six(pre) = <<1, 2, 3, 0, 0, 0>>
    /\ args.s = 2
    /\ Six(ret) = <<2, 4, 6, 0, 0, 0>>

\* C13: with the checks enabled, operator/= and operator/ throw exactly when
\* s <= 0; for s > 0 each of the six values is multiplied by 1 / s.
C13_DivideByScalar ==
    (ChecksEnabled /\ op \in {"/=", "I / s"}) =>
        /\ threw <=> args.s <= 0
        /\ (~threw /\ ~IsNaN(pre)) =>
              \A k \in 1..6 : Six(Scaled)[k] * args.s = Six(pre)[k]

C13_Witness ==
    /\ ChecksEnabled
    /\ op = "I / s"
    /\ args.s = 2
    /\ Six(pre) = <<2, 2, 2, 0, 0, 0>>
    /\ Six(ret) = <<1, 1, 1, 0, 0, 0>>

\* C14: when operator*= or operator/= throws for its scalar, the receiver's
\* six values are what they were before the call.
C14_FailedScalingLeavesReceiver ==
    (op \in {"*=", "/="} /\ threw) => Six(I) = Six(pre)

C14_Witness ==
    /\ op = "*="
    /\ threw
    /\ args.s = -1
    /\ Six(pre) = <<1, 2, 3, 0, 0, 0>>
    /\ Six(I) = <<1, 2, 3, 0, 0, 0>>

-----------------------------------------------------------------------------
(* Scalar types that are not is_bool: SpecSymbolic constructs a tensor of  *)
(* such a type by any constructor or factory and makes one call of a       *)
(* checked operation on it.                                                *)

InitSymbolic == InitCtor /\ ~build.is_bool

SymbolicCtorSix ==
    /\ op = "none"
    /\ \E a, b, c \in CtorMoments, p \in ProductTriples :
          Construct("RotationalInertia(Ixx, Iyy, Izz, Ixy, Ixz, Iyz)",
                    [kind |-> "values", v |-> <<a, b, c>> \o p],
                    RotationalInertia6(a, b, c, p[1], p[2], p[3]))

SymbolicMakeFromMomentsAndProductsOfInertia ==
    /\ op = "none"
    /\ \E a, b \in CtorMoments, p \in ProductTriples, skip \in BOOLEAN :
          Construct("MakeFromMomentsAndProductsOfInertia",
                    [kind |-> "values", v |-> <<a, b, b>> \o p,
                     skip_validity_check |-> skip],
                    MakeFromMomentsAndProductsOfInertia(
                        a, b, b, p[1], p[2], p[3], skip))

\* A tensor was built and nothing has been called on it yet.
Built == op # "none" /\ ~threw

SymbolicMinusEq == Built /\ OpMinusEq(1, TRUE)

SymbolicTimesEq == Built /\ OpTimesEq(1, TRUE)

SymbolicDivEq == Built /\ OpDivEq(1, TRUE)

SymbolicShiftFromCenterOfMassInPlace ==
    Built /\ OpShiftFromCenterOfMassInPlace(1, TRUE)

SymbolicShiftToCenterOfMassInPlace ==
    Built /\ OpShiftToCenterOfMassInPlace(1, TRUE)

SymbolicShiftToThenAwayFromCenterOfMassInPlace ==
    Built /\ OpShiftToThenAwayFromCenterOfMassInPlace(1, TRUE)

NextSymbolic ==
    \/ CtorDefault
    \/ CtorThree
    \/ SymbolicCtorSix
    \/ CtorTriaxiallySymmetric
    \/ SymbolicMakeFromMomentsAndProductsOfInertia
    \/ CtorPointMass
    \/ SymbolicMinusEq
    \/ SymbolicTimesEq
    \/ SymbolicDivEq
    \/ SymbolicShiftFromCenterOfMassInPlace
    \/ SymbolicShiftToCenterOfMassInPlace
    \/ SymbolicShiftToThenAwayFromCenterOfMassInPlace

SpecSymbolic == InitSymbolic /\ [][NextSymbolic]_vars

\* The six values of the tensor of a particle of mass m at (x, y, z).
PointMassValues(m, p) ==
    LET x == p[1]
        y == p[2]
        z == p[3]
    IN  << m * (y * y + z * z), m * (x * x + z * z), m * (x * x + y * y),
           0 - m * x * y, 0 - m * x * z, 0 - m * y * z >>

\* The six values a recorded call computes when nothing is checked.
UncheckedValues ==
    LET v == Six(pre)
    IN  CASE op = "-=" ->
               [k \in 1..6 |-> Minus(v[k], Six(args.B)[k])]
          [] op = "*=" -> [k \in 1..6 |-> Times(v[k], args.s)]
          [] op = "/=" -> [k \in 1..6 |-> TimesOneOver(v[k], args.s)]
          [] op = "ShiftFromCenterOfMassInPlace" ->
               [k \in 1..6 |-> Plus(v[k], PointMassValues(args.mass, args.p)[k])]
          [] op = "ShiftToCenterOfMassInPlace" ->
               [k \in 1..6 |-> Minus(v[k], PointMassValues(args.mass, args.p)[k])]
          [] op = "ShiftToThenAwayFromCenterOfMassInPlace" ->
               [k \in 1..6 |->
                   Plus(v[k], args.mass * (PointMassValues(1, args.q)[k]
                                             - PointMassValues(1, args.p)[k]))]
          [] args.kind = "values" -> args.v
          [] args.kind = "point_mass" -> PointMassValues(args.mass, args.p)
          [] OTHER -> Six(AllNaN)

\* C15: for a scalar type that is not is_bool, no constructor, factory,
\* subtraction, shift, multiplication or division throws, whatever its
\* arguments, and the six values that result are those of the same arithmetic
\* done without any check.
C15_SymbolicNeverThrows ==
    ~build.is_bool => (~threw /\ Six(I) = UncheckedValues)

C15_Witness ==
    /\ ~build.is_bool
    /\ build.armed
    /\ op = "-="
    /\ ~threw
    /\ ~IsNaN(I)
    /\ ~StoredMomentsCouldBeValid(I)

\* The largest absolute difference of corresponding moments and products.
MaxAbsDifference(A, B) ==
    LET d == [k \in 1..6 |-> abs(Six(A)[k] - Six(B)[k])]
    IN  CHOOSE m \in {d[k] : k \in 1..6} : \A k \in 1..6 : d[k] <= m

\* C16 (as claimed): A.IsNearlyEqualTo(B, precision) is true exactly when the
\* largest absolute difference of corresponding moments and products is
\* strictly less than precision * min(0.5 * trace(A), 0.5 * trace(B)).
C16_NearlyEqualIffStrictlyLess ==
    op = "IsNearlyEqualTo" =>
        (args.returned <=> MaxAbsDifference(pre, args.B)
                    < args.precision
                        * min(Trace(pre) \div 2, Trace(args.B) \div 2))

\* What the code computes instead: the comparison is not strict, and the
\* trace enters by its absolute value.
C16_NearlyEqualIffAtMost ==
    op = "IsNearlyEqualTo" =>
        (args.returned <=> MaxAbsDifference(pre, args.B)
                    <= args.precision
                        * min(abs(Trace(pre)) \div 2,
                              abs(Trace(args.B)) \div 2))

\* A call on two valid tensors whose difference equals the tolerance.
C16_AtTolerance ==
    /\ op = "IsNearlyEqualTo"
    /\ CouldBePhysicallyValid(pre)
    /\ Trace(pre) > 0
    /\ MaxAbsDifference(pre, args.B)
          = args.precision * min(Trace(pre) \div 2, Trace(args.B) \div 2)
    /\ args.returned = TRUE

\* Element (i, j) of R * S * R^T, S the full symmetric matrix of a tensor
\* without NaN.
RotatedElement(M, R, i, j) ==
    LET S == CopyToFullMatrix3(M)
        Row(k) == R[i][k] * (S[k][1] * R[j][1] + S[k][2] * R[j][2]
                             + S[k][3] * R[j][3])
    IN  Row(1) + Row(2) + Row(3)

\* C17: ReExpress(R) returns the six values of R * M * R^T, with the trace of
\* M; with R the identity it returns the same tensor; and ReExpress(R)
\* followed by ReExpress(R^T) returns the original tensor.
C17_ReExpress ==
    /\ (op = "ReExpress" /\ ~threw) =>
          /\ ~IsNaN(pre) =>
                /\ \A i \in 1..3 : \A j \in 1..i :
                      ret[i][j] = RotatedElement(pre, args.R, i, j)
                /\ Trace(ret) = Trace(pre)
          /\ args.R = Identity3 => Six(ret) = Six(pre)
    /\ (op = "ReExpress.ReExpress" /\ ~threw) => Six(ret) = Six(pre)

C17_Witness ==
    /\ op = "ReExpress"
    /\ ChecksEnabled
    /\ args.R = << <<0, -1, 0>>, <<1, 0, 0>>, <<0, 0, 1>> >>
    /\ Six(pre) = <<1, 2, 3, 0, 0, 0>>
    /\ Six(ret) = <<2, 1, 3, 0, 0, 0>>

\* C18: for a tensor that could be physically valid,
\* CalcPrincipalMomentsOfInertia returns three values in ascending order that
\* sum to the trace; for moments (5, 5, 5) and no products the principal
\* moments are (5, 5, 5) and CalcPrincipalMomentsAndAxesOfInertia returns the
\* identity rotation.
C18_PrincipalMoments ==
    /\ (op = "CalcPrincipalMomentsOfInertia" /\ build.is_bool
            /\ CouldBePhysicallyValid(pre)) =>
          /\ ~threw
          /\ Len(args.returned) = 3
          /\ args.returned[1] <= args.returned[2]
          /\ args.returned[2] <= args.returned[3]
          /\ args.returned[1] + args.returned[2] + args.returned[3]
                = Trace(pre)
    /\ (build.is_bool /\ Six(pre) = <<5, 5, 5, 0, 0, 0>>) =>
          /\ op = "CalcPrincipalMomentsOfInertia" =>
                (~threw /\ args.returned = <<5, 5, 5>>)
          /\ op = "CalcPrincipalMomentsAndAxesOfInertia" =>
                (~threw /\ args.moments = <<5, 5, 5>>
                        /\ args.R_EA = Identity3)

C18_Witness ==
    /\ op = "CalcPrincipalMomentsOfInertia"
    /\ CouldBePhysicallyValid(pre)
    /\ Six(pre) = <<1, 1, 2, 1, 0, 0>>
    /\ ~threw
    /\ args.returned = <<0, 2, 2>>

\* C19: tensor * w is the product of CopyToFullMatrix3() with w: it is
\* computed from the six lower-triangular values alone, and for a tensor
\* whose six values are not NaN no element of it is the NaN of the upper
\* triangle.
C19_TimesVector ==
    (op = "I * w" /\ ~IsNaN(pre)) =>
        LET S == CopyToFullMatrix3(pre)
            w == args.w
        IN  /\ args.returned
                  = [i \in 1..3 |->
                        S[i][1] * w[1] + S[i][2] * w[2] + S[i][3] * w[3]]
            /\ \A i \in 1..3 : ~isnan(args.returned[i])

C19_Witness ==
    /\ op = "I * w"
    /\ Six(pre) = <<1, 1, 2, 1, 0, 0>>
    /\ args.w = <<1, -1, 2>>
    /\ args.returned = <<0, 0, 4>>

-----------------------------------------------------------------------------
(* Accessors: SpecAccess constructs a tensor, makes up to MaxSeqCalls      *)
(* calls of mutating methods on it and reads it through the accessors at   *)
(* any point of the sequence.                                              *)

\* Arguments of the calls of a sequence.
SeqTensors == { set_moments_and_products_no_validity_check(AllNaN, 1, 1, 2, -1, 0, 0) }

SeqScalars == {-1, 2}

SeqOffsets == { <<0, 0, 1>>, <<-1, 1, 0>> }

SeqRotations == Rotations \ {Identity3}

InitAccess ==
    /\ build \in RealBuilds
    /\ \/ Constructed([I |-> AllNaN, threw |-> FALSE], NoArgs, FALSE)
       \/ \E v \in ExampleMoments :
            Constructed(RotationalInertia3(v[1], v[2], v[3]), NoArgs, FALSE)
       \/ \E p \in SeqOffsets :
            Constructed(RotationalInertiaPointMass(1, p), NoArgs, FALSE)
       \/ \E p \in ProductTriples :
            Constructed(
                MakeFromMomentsAndProductsOfInertia(2, 2, 2, p[1], p[2], p[3], TRUE),
                NoArgs, FALSE)

SeqPlusEq ==
    /\ ncalls < MaxSeqCalls
    /\ \E B \in SeqTensors : Call("+=", NoArgs, PlusEq(I, B), FALSE)

SeqMinusEq ==
    /\ ncalls < MaxSeqCalls
    /\ \E B \in SeqTensors : Call("-=", NoArgs, MinusEq(I, B), FALSE)

SeqTimesEq ==
    /\ ncalls < MaxSeqCalls
    /\ \E s \in SeqScalars : Call("*=", NoArgs, TimesEq(I, s), FALSE)

SeqDivEq ==
    /\ ncalls < MaxSeqCalls
    /\ \E s \in SeqScalars :
          /\ DrakeAssertVoid(ThrowIfDivideByZeroOrNegativeScalar(s))
                \/ IsExactQuotient(I, s)
          /\ Call("/=", NoArgs, DivEq(I, s), FALSE)

SeqShiftFromCenterOfMassInPlace ==
    /\ ncalls < MaxSeqCalls
    /\ \E p \in SeqOffsets :
          Call("ShiftFromCenterOfMassInPlace", NoArgs,
               ShiftFromCenterOfMassInPlace(I, 1, p), FALSE)

SeqShiftToCenterOfMassInPlace ==
    /\ ncalls < MaxSeqCalls
    /\ \E p \in SeqOffsets :
          Call("ShiftToCenterOfMassInPlace", NoArgs,
               ShiftToCenterOfMassInPlace(I, 1, p), FALSE)

SeqShiftToThenAwayFromCenterOfMassInPlace ==
    /\ ncalls < MaxSeqCalls
    /\ \E p, q \in SeqOffsets :
          Call("ShiftToThenAwayFromCenterOfMassInPlace", NoArgs,
               ShiftToThenAwayFromCenterOfMassInPlace(I, 1, p, q), FALSE)

SeqReExpressInPlace ==
    /\ ncalls < MaxSeqCalls
    /\ \E R \in SeqRotations :
          Call("ReExpressInPlace", NoArgs, ReExpressInPlace(I, R), FALSE)

\* A call of an accessor: it reads the tensor and changes nothing.
Access(name, how) ==
    /\ op' = name
    /\ args' = how
    /\ threw' = FALSE
    /\ UNCHANGED <<build, I, pre, ret, ncalls>>

\* operator()(i, j), and operator()(j, i) next to it.
AccessElement ==
    \E i, j \in 0..2 :
        Access("operator()",
               [kind |-> "element", i |-> i, j |-> j,
                element |-> At(I, i, j), transposed |-> At(I, j, i)])

AccessMoments ==
    Access("get_moments", [kind |-> "moments", moments |-> get_moments(I)])

AccessProducts ==
    Access("get_products", [kind |-> "products", products |-> get_products(I)])

AccessCopyToFullMatrix3 ==
    Access("CopyToFullMatrix3",
           [kind |-> "matrix", matrix |-> CopyToFullMatrix3(I)])

NextAccess ==
    \/ SeqPlusEq
    \/ SeqMinusEq
    \/ SeqTimesEq
    \/ SeqDivEq
    \/ SeqShiftFromCenterOfMassInPlace
    \/ SeqShiftToCenterOfMassInPlace
    \/ SeqShiftToThenAwayFromCenterOfMassInPlace
    \/ SeqReExpressInPlace
    \/ AccessElement
    \/ AccessMoments
    \/ AccessProducts
    \/ AccessCopyToFullMatrix3

SpecAccess == InitAccess /\ [][NextAccess]_vars

\* The stored value an accessor is to return for the element (i, j), 0-based:
\* the one of the lower triangle.
Stored(i, j) == IF i >= j THEN I[i + 1][j + 1] ELSE I[j + 1][i + 1]

\* C20: for all (i, j), I(i, j) = I(j, i) = the stored lower-triangular
\* value; and after any sequence of operations on a tensor whose six values
\* are initialized, operator(), get_moments, get_products and
\* CopyToFullMatrix3 return none of the NaN of the upper triangle.
C20_AccessorsReadLowerTriangle ==
    /\ op = "operator()" =>
          /\ args.element = Stored(args.i, args.j)
          /\ args.transposed = args.element
          /\ ~IsNaN(I) => ~isnan(args.element)
    /\ op = "get_moments" =>
          /\ args.moments = <<Stored(0, 0), Stored(1, 1), Stored(2, 2)>>
          /\ ~IsNaN(I) => \A k \in 1..3 : ~isnan(args.moments[k])
    /\ op = "get_products" =>
          /\ args.products = <<Stored(0, 1), Stored(0, 2), Stored(1, 2)>>
          /\ ~IsNaN(I) => \A k \in 1..3 : ~isnan(args.products[k])
    /\ op = "CopyToFullMatrix3" =>
          /\ \A i, j \in 0..2 : args.matrix[i + 1][j + 1] = Stored(i, j)
          /\ ~IsNaN(I) => \A i, j \in 1..3 : ~isnan(args.matrix[i][j])

C20_Witness ==
    /\ op = "operator()"
    /\ ncalls = MaxSeqCalls
    /\ args.i = 0
    /\ args.j = 1
    /\ isnan(I[1][2])
    /\ ~IsNaN(I)
    /\ args.element # 0
    /\ args.element = I[2][1]

-----------------------------------------------------------------------------
(* SetToNaN, SetZero and the three whole-tensor predicates                  *)
(* (rotational_inertia.h, 481-545), driven after a construction.            *)

\* setConstant(quiet_NaN) writes all nine elements.
SetToNaN(M) == AllNaN

\* Only the three moments are zeroed.
SetZeroMomentsOnly(M) ==
    << <<0, M[1][2], M[1][3]>>,
       <<M[2][1], 0, M[2][3]>>,
       <<M[3][1], M[3][2], 0>> >>

\* triangularView<Lower>() = Zero(): the upper off-diagonal elements stay.
SetZero(M) ==
    << <<0, M[1][2], M[1][3]>>,
       <<0, 0, M[2][3]>>,
       <<0, 0, 0>> >>

\* isfinite of a scalar: not NaN (the model has no infinities).
isfinite(x) == ~isnan(x)

IsFinite(M) ==
    /\ isfinite(Elem(M, 0, 0)) /\ isfinite(Elem(M, 1, 0)) /\ isfinite(Elem(M, 1, 1))
    /\ isfinite(Elem(M, 2, 0)) /\ isfinite(Elem(M, 2, 1)) /\ isfinite(Elem(M, 2, 2))

IsZero(M) ==
    /\ EqualTo(Elem(M, 0, 0), 0) /\ EqualTo(Elem(M, 1, 0), 0) /\ EqualTo(Elem(M, 1, 1), 0)
    /\ EqualTo(Elem(M, 2, 0), 0) /\ EqualTo(Elem(M, 2, 1), 0) /\ EqualTo(Elem(M, 2, 2), 0)

\* A setter called once on the tensor built; pre keeps the tensor it found.
Reset(name, result) ==
    /\ op \notin {"none", "SetToNaN", "SetZero"}
    /\ ~threw
    /\ ncalls = 0
    /\ op' = name
    /\ pre' = I
    /\ I' = result
    /\ UNCHANGED <<build, args, threw, ret, ncalls>>

ResetToNaN == Reset("SetToNaN", SetToNaN(I))

ResetToZero == Reset("SetZero", SetZero(I))

\* IsNaN(), IsFinite(), IsZero() and CouldBePhysicallyValid() asked of the
\* tensor, T a real scalar type; the four answers are kept in args.
QueryPredicates ==
    /\ op # "none"
    /\ ~threw
    /\ ncalls = 0
    /\ build.is_bool
    /\ ncalls' = 1
    /\ args' = [kind |-> "predicates",
                IsNaN |-> IsNaN(I),
                IsFinite |-> IsFinite(I),
                IsZero |-> IsZero(I),
                CouldBePhysicallyValid |-> CouldBePhysicallyValid(I)]
    /\ UNCHANGED <<build, I, op, pre, threw, ret>>

NextReset ==
    \/ CtorDefault
    \/ CtorSix
    \/ CtorPointMass
    \/ ResetToNaN
    \/ ResetToZero
    \/ QueryPredicates

SpecReset == InitCtor /\ [][NextReset]_vars

AllSix(M, x) == \A k \in 1..6 : Six(M)[k] = x

\* C21: a default-constructed tensor holds NaN in all six values, and IsNaN()
\* is true, IsFinite(), IsZero() and CouldBePhysicallyValid() are false of
\* it; SetToNaN() brings any tensor to that state; SetZero() makes all six
\* values zero, and IsZero() is then true.
C21_DefaultNaNAndSetters ==
    /\ op \in {"RotationalInertia()", "SetToNaN"} =>
          /\ AllSix(I, NaN)
          /\ Queried =>
                /\ args.IsNaN
                /\ ~args.IsFinite
                /\ ~args.IsZero
                /\ ~args.CouldBePhysicallyValid
    /\ op = "SetZero" =>
          /\ AllSix(I, 0)
          /\ Queried => args.IsZero

\* SetToNaN() and SetZero() each applied to a tensor of finite non-zero
\* values, SetZero() also to the default tensor, and the predicates asked.
C21_Witness ==
    /\ Queried
    /\ op \in {"SetToNaN", "SetZero"}
    /\ IsFinite(pre)
    /\ ~IsZero(pre)

-----------------------------------------------------------------------------
(* SpecConst: one call of a result-returning form on a constructed tensor. *)

\* I + B.
EvalPlus ==
    /\ ncalls < 1
    /\ \E B \in ArgTensors :
          Eval("I + B", [kind |-> "tensor", B |-> B], OperatorPlus(I, B))

\* I - B.
EvalMinus ==
    /\ ncalls < 1
    /\ \E B \in ArgTensors :
          Eval("I - B", [kind |-> "tensor", B |-> B], OperatorMinus(I, B))

NextConst ==
    \/ EvalPlus
    \/ EvalMinus
    \/ EvalTimes
    \/ EvalDivide
    \/ EvalShiftFromCenterOfMass
    \/ EvalShiftToCenterOfMass
    \/ EvalShiftToThenAwayFromCenterOfMass
    \/ EvalReExpress

SpecConst == InitCall /\ [][NextConst]_vars

ConstForms ==
    {"I + B", "I - B", "I * s", "I / s", "ShiftFromCenterOfMass",
     "ShiftToCenterOfMass", "ShiftToThenAwayFromCenterOfMass", "ReExpress"}

\* What the in-place form of the call recorded does to a copy of the
\* receiver as it was before the call.
InPlaceOnCopy ==
    CASE op = "I + B" -> PlusEq(pre, args.B)
      [] op = "I - B" -> MinusEq(pre, args.B)
      [] op = "I * s" -> TimesEq(pre, args.s)
      [] op = "I / s" -> DivEq(pre, args.s)
      [] op = "ShiftFromCenterOfMass" ->
            ShiftFromCenterOfMassInPlace(pre, args.mass, args.p)
      [] op = "ShiftToCenterOfMass" ->
            ShiftToCenterOfMassInPlace(pre, args.mass, args.p)
      [] op = "ShiftToThenAwayFromCenterOfMass" ->
            ShiftToThenAwayFromCenterOfMassInPlace(pre, args.mass, args.p, args.q)
      [] op = "ReExpress" -> ReExpressInPlace(pre, args.R)

\* C22: operator+, operator-, operator*, operator/, ShiftFromCenterOfMass,
\* ShiftToCenterOfMass, ShiftToThenAwayFromCenterOfMass and ReExpress leave
\* the receiver as it was, and each throws exactly when its in-place form
\* throws on a copy of the receiver and otherwise returns the tensor the
\* in-place form leaves in that copy.
C22_ConstFormsMatchInPlace ==
    op \in ConstForms =>
        /\ I = pre
        /\ threw = InPlaceOnCopy.threw
        /\ ~threw => ret = InPlaceOnCopy.I

\* A result-returning form returned a tensor that differs from its receiver.
C22_Witness ==
    /\ op \in ConstForms
    /\ ~threw
    /\ ret # pre
    /\ I = pre

-----------------------------------------------------------------------------
(* SpecPointMass: a tensor is built, by the point-mass constructor or from *)
(* six values, and ShiftFromCenterOfMassInPlace is called on it once.      *)

ShiftBuiltFromCenterOfMassInPlace ==
    Built /\ OpShiftFromCenterOfMassInPlace(1, TRUE)

NextPointMass ==
    \/ CtorPointMass
    \/ CtorSix
    \/ ShiftBuiltFromCenterOfMassInPlace

SpecPointMass == InitCtor /\ [][NextPointMass]_vars

-----------------------------------------------------------------------------
(* automotive_demo.cc.  main() determines the road network type from the   *)
(* flags, adds the terrain and then the vehicles.  A run of main() is kept *)
(* in the module's variables, read here under the program's own names.     *)

\* The command-line flags, fixed when main() starts.
FLAGS == args

\* The statement main() is at; a throw leaves it where it was thrown.
at == op

road_network_type == ret

road_geometry == build

\* The vehicles the AutomotiveSimulator holds, in the order they were added.
simulator == I

\* The index i of the for loop that is running.
index == ncalls

\* The locals of AddVehicles and the parameters of AddMaliputRailcar.
locals == pre

MaxSimpleCars == 2

MaxNameLength == 3

MaxTrajectoryCars == 1

MaxRailcars == 3

MaxLanes == 2

kRailcarRowSpacing == 5

kSimpleCarYSpacing == 3

dragway_base_speed == 4

dragway_lane_speed_delta == 2

dragway_vehicle_delay == 3

onramp_base_speed == 25

\* A std::string is the sequence of its pieces: a literal of the program is
\* one piece and a string typed by the user has one piece per character.
Characters == {"a", ","}

Strings(n) == UNION {[1..k -> Characters] : k \in 0..n}

DragwayLengths == {5, 10, 100}

FlagValues ==
    [num_simple_car : -1..MaxSimpleCars,
     simple_car_names : Strings(MaxNameLength),
     num_trajectory_car : 0..MaxTrajectoryCars,
     num_idm_controlled_maliput_railcar : 0..MaxRailcars,
     num_maliput_railcar : 0..MaxRailcars,
     num_dragway_lanes : -1..MaxLanes,
     dragway_length : DragwayLengths,
     with_onramp : BOOLEAN,
     onramp_swap_start : BOOLEAN]

\* The command lines followed: the simple-car flags or the other vehicle
\* counts are left at their defaults.
DemoFlags ==
    {f \in FlagValues :
        \/ f.num_simple_car = 0 /\ f.simple_car_names = <<>>
        \/ /\ f.num_trajectory_car = 0
           /\ f.num_idm_controlled_maliput_railcar = 0
           /\ f.num_maliput_railcar = 0}

nullptr == [id |-> "nullptr", num_lanes |-> 0, length |-> 0]

NoLocals ==
    [stream |-> <<>>, y_offset |-> 0, num_cars |-> 0,
     idm_controlled |-> FALSE, initial_s_offset |-> 0]

Digits == <<"0", "1", "2", "3", "4", "5", "6", "7", "8", "9">>

RECURSIVE to_string(_)
to_string(n) ==
    IF n < 10 THEN <<Digits[n + 1]>>
    ELSE to_string(n \div 10) \o <<Digits[(n % 10) + 1]>>

\* Every name gets the suffix, the empty one too.
MakeChannelNameAlwaysSuffixed(name) == <<"DRIVING_COMMAND">> \o <<"_">> \o name

MakeChannelName(name) ==
    LET default_prefix == <<"DRIVING_COMMAND">>
    IN  IF name = <<>> THEN default_prefix
        ELSE default_prefix \o <<"_">> \o name

\* The count of selected environments is not looked at.
DetermineRoadNetworkTypeWithoutCount(flags) ==
    [threw |-> FALSE,
     returned |-> IF flags.num_dragway_lanes > 0 THEN "dragway"
                  ELSE IF flags.with_onramp THEN "onramp" ELSE "flat"]

\* [threw, returned]; an int flag is true in a condition when it is not 0.
DetermineRoadNetworkType(flags) ==
    LET num_environments_selected ==
            (IF flags.with_onramp THEN 1 ELSE 0)
            + (IF flags.num_dragway_lanes # 0 THEN 1 ELSE 0)
    IN  IF num_environments_selected > 1
        THEN [threw |-> TRUE, returned |-> "undetermined"]
        ELSE [threw |-> FALSE,
              returned |-> IF flags.num_dragway_lanes > 0 THEN "dragway"
                           ELSE IF flags.with_onramp THEN "onramp"
                           ELSE "flat"]

\* The road geometry the simulator is given; AddFlatTerrain adds none.
AddTerrain(type, flags) ==
    CASE type = "flat" -> nullptr
      [] type = "dragway" ->
            [id |-> "Automotive Demo Dragway",
             num_lanes |-> flags.num_dragway_lanes,
             length |-> flags.dragway_length]
      [] type = "onramp" -> [id |-> "onramp", num_lanes |-> 0, length |-> 0]

\* simple_car_names as the loop of AddVehicles builds it: "0,1,...,n-1".
RECURSIVE NumberedNames(_)
NumberedNames(n) ==
    IF n <= 0 THEN <<>>
    ELSE IF n = 1 THEN to_string(0)
    ELSE NumberedNames(n - 1) \o <<",">> \o to_string(n - 1)

\* getline(stream, name, ',') on a stream with characters left: the
\* characters before the first ',' are the name, and the ',' is consumed.
DelimiterAt(stream) ==
    IF \E k \in 1..Len(stream) : stream[k] = ","
    THEN CHOOSE k \in 1..Len(stream) :
            /\ stream[k] = ","
            /\ \A j \in 1..(k - 1) : stream[j] # ","
    ELSE Len(stream) + 1

getline(stream) ==
    [name |-> SubSeq(stream, 1, DelimiterAt(stream) - 1),
     rest |-> SubSeq(stream, DelimiterAt(stream) + 1, Len(stream))]

\* The comparison made with > instead of >=.
RanOutOfLaneLengthBeyondEnd(s_offset, length) == s_offset > length

\* s_offset >= lane->length().
RanOutOfLaneLength(s_offset, length) == s_offset >= length

\* std::ceil(num_idm / num_lanes) * kRailcarRowSpacing: the division is of
\* two ints and truncates before std::ceil sees the quotient.
InitialSOffset(flags) ==
    (flags.num_idm_controlled_maliput_railcar \div flags.num_dragway_lanes)
        * kRailcarRowSpacing

\* The branch of AddVehicles taken for the road network type.
VehiclesBranch(type) ==
    CASE type = "dragway" -> "dragway trajectory cars"
      [] type = "onramp" -> "onramp railcars"
      [] OTHER -> "flat trajectory cars"

InitDemo ==
    /\ args \in DemoFlags
    /\ op = "DetermineRoadNetworkType"
    /\ ret = "undetermined"
    /\ build = nullptr
    /\ I = <<>>
    /\ ncalls = 0
    /\ pre = NoLocals
    /\ threw = FALSE

\* main(): road_network_type = DetermineRoadNetworkType().
MainDetermineRoadNetworkType ==
    /\ at = "DetermineRoadNetworkType"
    /\ ~threw
    /\ \E r \in {DetermineRoadNetworkType(FLAGS)} :
          /\ threw' = r.threw
          /\ road_network_type' = r.returned
          /\ at' = IF r.threw THEN at ELSE "AddTerrain"
    /\ UNCHANGED <<args, build, I, ncalls, pre>>

\* main(): road_geometry = AddTerrain(road_network_type, simulator).
MainAddTerrain ==
    /\ at = "AddTerrain"
    /\ ~threw
    /\ road_geometry' = AddTerrain(road_network_type, FLAGS)
    /\ at' = "AddVehicles"
    /\ UNCHANGED <<args, I, ncalls, pre, threw, ret>>

\* AddVehicles up to the getline loop.
AddVehiclesBegin ==
    /\ at = "AddVehicles"
    /\ ~threw
    /\ IF FLAGS.num_simple_car # 0 /\ FLAGS.simple_car_names # <<>>
       THEN threw' = TRUE /\ UNCHANGED <<op, pre>>
       ELSE /\ threw' = FALSE
            /\ IF FLAGS.num_simple_car # 0 \/ FLAGS.simple_car_names # <<>>
               THEN /\ at' = "getline"
                    /\ locals' =
                         [locals EXCEPT
                            !.stream =
                               IF FLAGS.simple_car_names = <<>>
                               THEN NumberedNames(FLAGS.num_simple_car)
                               ELSE FLAGS.simple_car_names,
                            !.y_offset = 0]
               ELSE /\ at' = VehiclesBranch(road_network_type)
                    /\ UNCHANGED pre
    /\ UNCHANGED <<args, build, I, ncalls, ret>>

\* One turn of the while loop: getline succeeds and a simple car is added.
AddPriusSimpleCar ==
    /\ at = "getline"
    /\ ~threw
    /\ locals.stream # <<>>
    /\ \E g \in {getline(locals.stream)} :
          /\ simulator' =
                Append(simulator,
                       [model |-> "PriusSimpleCar",
                        name |-> g.name,
                        channel_name |-> MakeChannelName(g.name),
                        y |-> locals.y_offset])
          /\ locals' = [locals EXCEPT !.stream = g.rest,
                                      !.y_offset = @ + kSimpleCarYSpacing]
    /\ UNCHANGED <<args, build, op, ncalls, threw, ret>>

\* getline fails at the end of the stream and the loop ends.
SimpleCarsAdded ==
    /\ at = "getline"
    /\ ~threw
    /\ locals.stream = <<>>
    /\ at' = VehiclesBranch(road_network_type)
    /\ UNCHANGED <<args, build, I, ncalls, pre, threw, ret>>

\* Dragway: one turn of the trajectory-car loop.
AddDragwayTrajectoryCar ==
    /\ at = "dragway trajectory cars"
    /\ ~threw
    /\ index < FLAGS.num_trajectory_car
    /\ LET lane_index == index % FLAGS.num_dragway_lanes
           speed == dragway_base_speed + lane_index * dragway_lane_speed_delta
           start_time ==
               (index \div FLAGS.num_dragway_lanes) * dragway_vehicle_delay
       IN  simulator' =
              Append(simulator,
                     [model |-> "PriusTrajectoryCar",
                      name |-> <<"TrajectoryCar">> \o to_string(index),
                      lane_index |-> lane_index,
                      speed |-> speed,
                      start_time |-> start_time])
    /\ index' = index + 1
    /\ UNCHANGED <<args, build, op, pre, threw, ret>>

\* Dragway: the loop is over and AddMaliputRailcar is called for the
\* IDM-controlled railcars, with initial_s_offset 0.
CallAddIdmControlledRailcars ==
    /\ at = "dragway trajectory cars"
    /\ ~threw
    /\ index >= FLAGS.num_trajectory_car
    /\ at' = "AddMaliputRailcar"
    /\ index' = 0
    /\ locals' =
          [locals EXCEPT
             !.num_cars = FLAGS.num_idm_controlled_maliput_railcar,
             !.idm_controlled = TRUE,
             !.initial_s_offset = 0]
    /\ UNCHANGED <<args, build, I, threw, ret>>

\* AddMaliputRailcar: one turn of its loop, which adds car i or throws.
AddMaliputRailcarTurn ==
    /\ at = "AddMaliputRailcar"
    /\ ~threw
    /\ index < locals.num_cars
    /\ LET lane_index == index % FLAGS.num_dragway_lanes
           speed == dragway_base_speed + lane_index * dragway_lane_speed_delta
           row == index \div FLAGS.num_dragway_lanes
           s_offset == locals.initial_s_offset + kRailcarRowSpacing * row
       IN  IF RanOutOfLaneLength(s_offset, road_geometry.length)
           THEN threw' = TRUE /\ UNCHANGED <<I, ncalls>>
           ELSE /\ threw' = FALSE
                /\ index' = index + 1
                /\ simulator' =
                      Append(simulator,
                             [model |-> IF locals.idm_controlled
                                        THEN "IdmControlledPriusMaliputRailcar"
                                        ELSE "PriusMaliputRailcar",
                              name |-> (IF locals.idm_controlled
                                        THEN <<"IdmControlledMaliputRailcar">>
                                        ELSE <<"MaliputRailcar">>)
                                       \o to_string(index),
                              lane_index |-> lane_index,
                              s |-> s_offset,
                              speed |-> speed])
    /\ UNCHANGED <<args, build, op, pre, ret>>

\* AddMaliputRailcar returns: AddVehicles calls it again for the fixed-speed
\* railcars, or is done.
AddMaliputRailcarReturn ==
    /\ at = "AddMaliputRailcar"
    /\ ~threw
    /\ index >= locals.num_cars
    /\ IF locals.idm_controlled
       THEN /\ locals' =
                 [locals EXCEPT
                    !.num_cars = FLAGS.num_maliput_railcar,
                    !.idm_controlled = FALSE,
                    !.initial_s_offset = InitialSOffset(FLAGS)]
            /\ index' = 0
            /\ UNCHANGED op
       ELSE /\ at' = "Start"
            /\ UNCHANGED <<pre, ncalls>>
    /\ UNCHANGED <<args, build, I, threw, ret>>

\* Onramp: one turn of the railcar loop; the car starts at the end of its
\* lane and drives against s.
AddOnrampRailcar ==
    /\ at = "onramp railcars"
    /\ ~threw
    /\ index < FLAGS.num_maliput_railcar
    /\ LET n == IF FLAGS.onramp_swap_start THEN index + 1 ELSE index
           lane_name == IF n % 2 = 0 THEN "l:onramp0" ELSE "l:pre0"
       IN  simulator' =
              Append(simulator,
                     [model |-> "PriusMaliputRailcar",
                      name |-> <<"MaliputRailcar">> \o to_string(index),
                      lane_name |-> lane_name,
                      with_s |-> FALSE,
                      s |-> "lane->length()",
                      speed |-> onramp_base_speed])
    /\ index' = index + 1
    /\ UNCHANGED <<args, build, op, pre, threw, ret>>

\* Flat terrain: one turn of the trajectory-car loop.
AddFlatTrajectoryCar ==
    /\ at = "flat trajectory cars"
    /\ ~threw
    /\ index < FLAGS.num_trajectory_car
    /\ simulator' =
          Append(simulator,
                 [model |-> "PriusTrajectoryCar",
                  name |-> <<"TrajectoryCar">> \o to_string(index),
                  params |-> index])
    /\ index' = index + 1
    /\ UNCHANGED <<args, build, op, pre, threw, ret>>

\* The onramp or flat loop is over and AddVehicles returns.
AddVehiclesReturn ==
    /\ \/ at = "onramp railcars" /\ index >= FLAGS.num_maliput_railcar
       \/ at = "flat trajectory cars" /\ index >= FLAGS.num_trajectory_car
    /\ ~threw
    /\ at' = "Start"
    /\ UNCHANGED <<args, build, I, ncalls, pre, threw, ret>>

NextDemo ==
    \/ MainDetermineRoadNetworkType
    \/ MainAddTerrain
    \/ AddVehiclesBegin
    \/ AddPriusSimpleCar
    \/ SimpleCarsAdded
    \/ AddDragwayTrajectoryCar
    \/ CallAddIdmControlledRailcars
    \/ AddMaliputRailcarTurn
    \/ AddMaliputRailcarReturn
    \/ AddOnrampRailcar
    \/ AddFlatTrajectoryCar
    \/ AddVehiclesReturn

SpecDemo == InitDemo /\ [][NextDemo]_vars

\* DetermineRoadNetworkType() threw.
RoadNetworkRejected == at = "DetermineRoadNetworkType" /\ threw

IsIdmControlledRailcar(v) == v.model = "IdmControlledPriusMaliputRailcar"

IsFixedSpeedRailcar(v) == v.model = "PriusMaliputRailcar"

IsSimpleCar(v) == v.model = "PriusSimpleCar"

\* C25 (as claimed): on a dragway, the IDM-controlled railcars are added
\* before the fixed-speed railcars, every fixed-speed railcar starts at an s
\* strictly greater than that of every IDM-controlled railcar, and no two
\* railcars start in the same lane at the same s.
C25_FixedSpeedRailcarsInFront ==
    road_network_type = "dragway" =>
        \A a, b \in 1..Len(simulator) :
            LET va == simulator[a]
                vb == simulator[b]
            IN  /\ (IsIdmControlledRailcar(va) /\ IsFixedSpeedRailcar(vb)) =>
                      a < b /\ vb.s > va.s
                /\ ( /\ a # b
                     /\ IsIdmControlledRailcar(va) \/ IsFixedSpeedRailcar(va)
                     /\ IsIdmControlledRailcar(vb) \/ IsFixedSpeedRailcar(vb) ) =>
                      ~(va.lane_index = vb.lane_index /\ va.s = vb.s)

\* The railcars the running (or last) call of AddMaliputRailcar added.
IsRailcarOfCall(v) ==
    IF locals.idm_controlled THEN IsIdmControlledRailcar(v)
    ELSE IsFixedSpeedRailcar(v)

\* The s of car j of the call, as claimed.
ClaimedS(j) == locals.initial_s_offset + 5 * (j \div FLAGS.num_dragway_lanes)

RailcarsPlaced ==
    (road_network_type = "dragway" /\ at \in {"AddMaliputRailcar", "Start"}) =>
        LET cars == SelectSeq(simulator, IsRailcarOfCall)
        IN  /\ Len(cars) = index
            /\ \A k \in 1..Len(cars) :
                  /\ cars[k].lane_index = (k - 1) % FLAGS.num_dragway_lanes
                  /\ cars[k].s = ClaimedS(k - 1)
                  /\ cars[k].s < road_geometry.length
            /\ threw => index < locals.num_cars
                        /\ ClaimedS(index) >= road_geometry.length
            /\ at = "Start" => Len(cars) = locals.num_cars

RailcarStep ==
    (at = "AddMaliputRailcar" /\ ~threw /\ index < locals.num_cars) =>
        /\ threw' <=> ClaimedS(index) >= road_geometry.length
        /\ threw' => simulator' = simulator
        /\ ~threw' => Len(simulator') = Len(simulator) + 1

\* C26: AddMaliputRailcar places car i in lane i mod num_dragway_lanes at
\* s = initial_s_offset + 5 * (i div num_dragway_lanes); it throws at the
\* first car whose s would be >= the lane length and at no other; every
\* railcar added has s < the lane length; and the cars added before the
\* throw are still in the simulator after it.
C26_RailcarPlacement == []RailcarsPlaced /\ [][RailcarStep]_vars

\* The call threw at a car that was not its first, and the earlier cars of
\* the call are in the simulator.
C26_Witness ==
    /\ at = "AddMaliputRailcar"
    /\ threw
    /\ index >= 2
    /\ Len(SelectSeq(simulator, IsRailcarOfCall)) = index

\* The k-th comma, and the fields the commas separate.
CommaPositions(s) == {p \in 1..Len(s) : s[p] = ","}

Cut(s, k) ==
    IF k = 0 THEN 0
    ELSE IF k > Cardinality(CommaPositions(s)) THEN Len(s) + 1
    ELSE CHOOSE p \in CommaPositions(s) :
            Cardinality({q \in CommaPositions(s) : q < p}) = k - 1

Fields(s) ==
    [k \in 1..(Cardinality(CommaPositions(s)) + 1) |->
        SubSeq(s, Cut(s, k - 1) + 1, Cut(s, k) - 1)]

\* The names of a comma-separated list: its fields, an empty text after the
\* last comma (or an empty list) being no name.
CommaSeparatedNames(s) ==
    IF Fields(s)[Len(Fields(s))] = <<>>
    THEN SubSeq(Fields(s), 1, Len(Fields(s)) - 1)
    ELSE Fields(s)

BothSimpleCarFlags ==
    FLAGS.num_simple_car # 0 /\ FLAGS.simple_car_names # <<>>

SimpleCarsPlaced ==
    LET cars == SelectSeq(simulator, IsSimpleCar)
        names == IF FLAGS.simple_car_names = <<>>
                 THEN [k \in 1..FLAGS.num_simple_car |-> to_string(k - 1)]
                 ELSE CommaSeparatedNames(FLAGS.simple_car_names)
    IN  /\ BothSimpleCarFlags =>
              /\ simulator = <<>>
              /\ at \in {"DetermineRoadNetworkType", "AddTerrain", "AddVehicles"}
        /\ SubSeq(simulator, 1, Len(cars)) = cars
        /\ Len(cars) <= Len(names)
        /\ \A k \in 1..Len(cars) :
              /\ cars[k].name = names[k]
              /\ cars[k].y = 3 * (k - 1)
              /\ cars[k].channel_name =
                    IF names[k] = <<>> THEN <<"DRIVING_COMMAND">>
                    ELSE <<"DRIVING_COMMAND", "_">> \o names[k]
        /\ at \in {"dragway trajectory cars", "onramp railcars",
                   "flat trajectory cars", "AddMaliputRailcar", "Start"} =>
              Len(cars) = Len(names)

AddVehiclesStep ==
    (at = "AddVehicles" /\ ~threw) => (threw' <=> BothSimpleCarFlags)

\* C27: AddVehicles throws, before any vehicle is added, when num_simple_car
\* is not 0 and simple_car_names is not empty, and only then; otherwise
\* num_simple_car = N adds exactly N simple cars named "0" .. "N-1",
\* simple_car_names adds one car per comma-separated name, the k-th car
\* added (k from 0) starts at y = 3 * k, and each car subscribes to
\* DRIVING_COMMAND_<name>, or to DRIVING_COMMAND when its name is empty.
C27_SimpleCars == []SimpleCarsPlaced /\ [][AddVehiclesStep]_vars

\* Two cars were added from a list of names whose first name is empty, and
\* the loop is over.
C27_Witness ==
    /\ at \in {"dragway trajectory cars", "onramp railcars",
               "flat trajectory cars"}
    /\ FLAGS.simple_car_names = <<",", "a">>
    /\ Len(simulator) = 2
    /\ simulator[1].channel_name = <<"DRIVING_COMMAND">>
    /\ simulator[2].y = 3

-----------------------------------------------------------------------------
(* geometry/query_object.cc.  A few QueryObject instances over one         *)
(* SceneGraph context.  The members of the class and the helpers its       *)
(* header defines inline (ThrowIfNotCallable, is_copyable, FullPoseUpdate, *)
(* FullConfigurationUpdate, FullPoseAndConfigurationUpdate) are modelled   *)
(* from their names and their use in query_object.cc.  The state is kept   *)
(* in the module's variables, read here under these names.                 *)

\* The QueryObject instances: name |-> the members of the object.
objects == I

\* The GeometryState values owned by shared pointers; state_ = k points to
\* the k-th of them and state_ = 0 is a null pointer.
heap == pre

\* The context of the SceneGraph: the kinematics values at its input ports
\* and the GeometryState it caches, last brought up to date by an update.
context == build

\* The last call: callee, receiver, argument, the objects and the number of
\* allocated states before it, and the helpers it called, in order.
log == args

MaxOps == 3

MaxVersion == 1

Versions == 0..MaxVersion

ObjectNames == {"a", "b", "c"}

NoState == [poses |-> -1, configurations |-> -1]

NotConstructed ==
    [exists |-> FALSE, context_ |-> "nullptr", scene_graph_ |-> "nullptr",
     state_ |-> 0, inspector_ |-> 0]

\* QueryObject(): every member null.
DefaultQueryObject == [NotConstructed EXCEPT !.exists = TRUE]

\* The object a SceneGraph output port evaluates to: context and scene
\* graph set, no baked state; the inspector looks at the context's state.
LiveQueryObject ==
    [exists |-> TRUE, context_ |-> "context", scene_graph_ |-> "scene_graph",
     state_ |-> 0, inspector_ |-> -1]

\* TRUE when it throws: neither live nor baked.
ThrowIfNotCallable(q) ==
    ~( \/ q.context_ # "nullptr" /\ q.scene_graph_ # "nullptr"
       \/ q.state_ # 0 )

\* Live, or context and scene graph both null.
is_copyable(q) ==
    \/ q.context_ # "nullptr" /\ q.scene_graph_ # "nullptr"
    \/ q.context_ = "nullptr" /\ q.scene_graph_ = "nullptr"

\* geometry_state(): the context's state when there is a context, else the
\* baked state; its assertion is the callability check again.
geometry_state(q, ctx) ==
    IF q.context_ # "nullptr" THEN ctx.state
    ELSE IF q.state_ # 0 THEN heap[q.state_]
    ELSE NoState

\* One helper called on q within a call whose progress is st =
\* [context, events, threw, read, input].
Statement(q, stmt, st) ==
    LET logged == [st EXCEPT !.events = Append(@, stmt)]
    IN  CASE stmt = "DRAKE_DEMAND(out != nullptr)" ->
               [logged EXCEPT !.threw = st.input = "null output"]
          [] stmt = "ThrowIfNotCallable" ->
               [logged EXCEPT !.threw = ThrowIfNotCallable(q)]
          [] stmt = "FullPoseUpdate" ->
               IF q.scene_graph_ # "nullptr"
               THEN [logged EXCEPT !.context.state.poses = st.context.poses]
               ELSE logged
          [] stmt = "FullConfigurationUpdate" ->
               IF q.scene_graph_ # "nullptr"
               THEN [logged EXCEPT !.context.state.configurations =
                                       st.context.configurations]
               ELSE logged
          [] stmt = "inspector_.IsDeformableGeometry" ->
               [logged EXCEPT !.threw = st.input = "deformable geometry"]
          [] stmt = "geometry_state" ->
               [logged EXCEPT !.threw = ThrowIfNotCallable(q),
                              !.read = geometry_state(q, st.context)]

\* The statements of a body run in order, up to the first that throws.
RECURSIVE Run(_, _, _)
Run(q, stmts, st) ==
    IF stmts = <<>> \/ st.threw THEN st
    ELSE Run(q, Tail(stmts), Statement(q, Head(stmts), st))

FullPoseAndConfigurationUpdate == <<"FullPoseUpdate", "FullConfigurationUpdate">>

\* The queries of query_object.cc, each the helpers it calls before it asks
\* the GeometryState it read for its answer.
Queries ==
    [GetPoseInWorld_FrameId |->
        <<"ThrowIfNotCallable", "FullPoseUpdate", "geometry_state">>,
     GetPoseInParent |->
        <<"ThrowIfNotCallable", "FullPoseUpdate", "geometry_state">>,
     GetPoseInWorld_GeometryId |->
        <<"ThrowIfNotCallable", "FullPoseUpdate",
          "inspector_.IsDeformableGeometry", "geometry_state">>,
     GetConfigurationsInWorld |->
        <<"ThrowIfNotCallable", "FullConfigurationUpdate", "geometry_state">>,
     GetDrivenMeshConfigurationsInWorld |->
        <<"ThrowIfNotCallable", "FullConfigurationUpdate", "geometry_state">>,
     ComputeAabbInWorld |->
        <<"ThrowIfNotCallable", "FullConfigurationUpdate", "geometry_state">>,
     ComputeObbInWorld |->
        <<"ThrowIfNotCallable", "FullPoseUpdate", "geometry_state">>,
     ComputePointPairPenetration |->
        <<"ThrowIfNotCallable">> \o FullPoseAndConfigurationUpdate
            \o <<"geometry_state">>,
     FindCollisionCandidates |->
        <<"ThrowIfNotCallable">> \o FullPoseAndConfigurationUpdate
            \o <<"geometry_state">>,
     HasCollisions |->
        <<"ThrowIfNotCallable">> \o FullPoseAndConfigurationUpdate
            \o <<"geometry_state">>,
     ComputeContactSurfaces |->
        <<"ThrowIfNotCallable", "FullPoseUpdate", "geometry_state">>,
     ComputeContactSurfacesWithFallback |->
        <<"DRAKE_DEMAND(out != nullptr)", "ThrowIfNotCallable",
          "FullPoseUpdate", "geometry_state">>,
     ComputeDeformableContact |->
        <<"DRAKE_DEMAND(out != nullptr)", "ThrowIfNotCallable">>
            \o FullPoseAndConfigurationUpdate \o <<"geometry_state">>,
     ComputeSignedDistancePairwiseClosestPoints |->
        <<"ThrowIfNotCallable">> \o FullPoseAndConfigurationUpdate
            \o <<"geometry_state">>,
     ComputeSignedDistancePairClosestPoints |->
        <<"ThrowIfNotCallable">> \o FullPoseAndConfigurationUpdate
            \o <<"geometry_state">>,
     ComputeSignedDistanceToPoint |->
        <<"ThrowIfNotCallable">> \o FullPoseAndConfigurationUpdate
            \o <<"geometry_state">>,
     ComputeSignedDistanceGeometryToPoint |->
        <<"ThrowIfNotCallable">> \o FullPoseAndConfigurationUpdate
            \o <<"geometry_state">>,
     RenderColorImage |->
        <<"ThrowIfNotCallable">> \o FullPoseAndConfigurationUpdate
            \o <<"geometry_state">>,
     RenderDepthImage |->
        <<"ThrowIfNotCallable">> \o FullPoseAndConfigurationUpdate
            \o <<"geometry_state">>,
     RenderLabelImage |->
        <<"ThrowIfNotCallable">> \o FullPoseAndConfigurationUpdate
            \o <<"geometry_state">>,
     GetRenderEngineByName |->
        <<"ThrowIfNotCallable">> \o FullPoseAndConfigurationUpdate
            \o <<"geometry_state">>]

\* The body with the state read moved in front of the updates.
QueryBodyReadingBeforeUpdate(callee) ==
    <<"ThrowIfNotCallable", "geometry_state">>
        \o SelectSeq(Queries[callee],
                     LAMBDA s : s \notin {"ThrowIfNotCallable", "geometry_state"})

QueryBody(callee) == Queries[callee]

\* operator=, live source: the snapshot taken before the source is updated.
SnapshotOfLiveSourceBeforeUpdate ==
    <<"geometry_state">> \o FullPoseAndConfigurationUpdate

\* operator=, live source: lines 39-40.
SnapshotOfLiveSource == FullPoseAndConfigurationUpdate \o <<"geometry_state">>

Progress(ctx, how) ==
    [context |-> ctx, events |-> <<>>, threw |-> FALSE, read |-> NoState,
     input |-> how]

\* operator= that copies the source's context and scene graph as well.
AssignKeepingContext(this, query_object, ctx, allocated) ==
    [object |-> [query_object EXCEPT !.exists = TRUE],
     context |-> ctx, events |-> <<>>, threw |-> FALSE, created |-> <<>>]

\* operator=(query_object) on this, two distinct objects: what this is
\* afterwards, the context, the helpers called, whether the demand failed
\* and the GeometryState allocated, if one was.
Assign(this, query_object, ctx, allocated) ==
    IF ~is_copyable(query_object)
    THEN [object |-> this, context |-> ctx,
          events |-> <<"DRAKE_DEMAND(is_copyable)">>, threw |-> TRUE,
          created |-> <<>>]
    ELSE IF query_object.state_ # 0
    THEN [object |-> [exists |-> TRUE, context_ |-> "nullptr",
                      scene_graph_ |-> "nullptr",
                      state_ |-> query_object.state_,
                      inspector_ |-> query_object.state_],
          context |-> ctx, events |-> <<>>, threw |-> FALSE, created |-> <<>>]
    ELSE IF query_object.context_ # "nullptr"
            /\ query_object.scene_graph_ # "nullptr"
    THEN LET r == Run(query_object, SnapshotOfLiveSource, Progress(ctx, "none"))
         IN  [object |-> [exists |-> TRUE, context_ |-> "nullptr",
                          scene_graph_ |-> "nullptr",
                          state_ |-> allocated + 1,
                          inspector_ |-> allocated + 1],
              context |-> r.context, events |-> r.events, threw |-> r.threw,
              created |-> <<r.read>>]
    ELSE [object |-> DefaultQueryObject, context |-> ctx, events |-> <<>>,
          threw |-> FALSE, created |-> <<>>]

Called(callee, on, from, events) ==
    [callee |-> callee, on |-> on, from |-> from, before |-> objects,
     allocated |-> Len(heap), events |-> events]

InitQuery ==
    /\ I \in {o \in [ObjectNames ->
                       {NotConstructed, DefaultQueryObject, LiveQueryObject}] :
                 o["a"].exists /\ ~o["c"].exists}
    /\ pre = <<>>
    /\ build = [poses |-> 0, configurations |-> 0,
                state |-> [poses |-> 0, configurations |-> 0]]
    /\ args = [callee |-> "none", on |-> "a", from |-> "a", before |-> I,
               allocated |-> 0, events |-> <<>>]
    /\ op = "none"
    /\ threw = FALSE
    /\ ret = NoState
    /\ ncalls = 0

\* The copy, by assignment or construction, once this # &query_object.
Copy(callee, on, from) ==
    \E r \in {Assign(objects[on], objects[from], context, Len(heap))} :
        /\ objects' = IF r.threw THEN objects
                      ELSE [objects EXCEPT ![on] = r.object]
        /\ heap' = IF r.threw THEN heap ELSE heap \o r.created
        /\ context' = r.context
        /\ log' = Called(callee, on, from, r.events)
        /\ threw' = r.threw

\* target = source, for every pair of constructed objects.
CopyAssign ==
    /\ ncalls < MaxOps
    /\ \E on, from \in ObjectNames :
          /\ objects[on].exists
          /\ objects[from].exists
          /\ IF on = from
             THEN /\ log' = Called("operator=", on, from, <<>>)
                  /\ threw' = FALSE
                  /\ UNCHANGED <<I, pre, build>>
             ELSE Copy("operator=", on, from)
    /\ op' = "operator="
    /\ ret' = NoState
    /\ ncalls' = ncalls + 1

\* QueryObject target(source): a new object, its members default
\* initialized, is assigned the source.
CopyConstruct ==
    /\ ncalls < MaxOps
    /\ \E on, from \in ObjectNames :
          /\ ~objects[on].exists
          /\ objects[from].exists
          /\ Copy("QueryObject(const QueryObject&)", on, from)
    /\ op' = "QueryObject(const QueryObject&)"
    /\ ret' = NoState
    /\ ncalls' = ncalls + 1

\* What a call of the query can meet: a null output argument where the
\* query demands one, a deformable geometry where it looks for one.
QueryInputs(callee) ==
    {"none"}
        \cup (IF \E n \in 1..Len(Queries[callee]) :
                    Queries[callee][n] = "DRAKE_DEMAND(out != nullptr)"
              THEN {"null output"} ELSE {})
        \cup (IF \E n \in 1..Len(Queries[callee]) :
                    Queries[callee][n] = "inspector_.IsDeformableGeometry"
              THEN {"deformable geometry"} ELSE {})

\* A query called on a constructed object; ret is the GeometryState it read.
\* Queries are not counted, only copies and changes of the context are, and
\* one query is followed between two of those.
Query ==
    /\ op # "query"
    /\ \E on \in ObjectNames, callee \in DOMAIN Queries :
          /\ objects[on].exists
          /\ \E how \in QueryInputs(callee) :
             \E r \in {Run(objects[on], QueryBody(callee),
                           Progress(context, how))} :
                /\ context' = r.context
                /\ log' = Called(callee, on, on, r.events)
                /\ threw' = r.threw
                /\ ret' = r.read
    /\ op' = "query"
    /\ UNCHANGED <<I, pre, ncalls>>

\* The values at the input ports of the SceneGraph change; the cached
\* GeometryState is as it was until the next update.
ChangeContext ==
    /\ ncalls < MaxOps
    /\ \E p, c \in Versions :
          /\ <<p, c>> # <<context.poses, context.configurations>>
          /\ context' = [context EXCEPT !.poses = p, !.configurations = c]
    /\ log' = Called("context changed", "a", "a", <<>>)
    /\ op' = "context changed"
    /\ threw' = FALSE
    /\ ret' = NoState
    /\ ncalls' = ncalls + 1
    /\ UNCHANGED <<I, pre>>

NextQuery ==
    \/ CopyAssign
    \/ CopyConstruct
    \/ Query
    \/ ChangeContext

SpecQuery == InitQuery /\ [][NextQuery]_vars

IsLive(q) == q.context_ # "nullptr" /\ q.scene_graph_ # "nullptr"

IsBaked(q) == ~IsLive(q) /\ q.state_ # 0

IsDefault(q) ==
    q.context_ = "nullptr" /\ q.scene_graph_ = "nullptr" /\ q.state_ = 0

Copied == op \in {"operator=", "QueryObject(const QueryObject&)"}

\* C28: after a QueryObject is copy-assigned or copy-constructed from a
\* distinct copyable source, its context and scene graph are null; it is
\* default if the source is default, it shares the source's baked state if
\* the source is baked, and it holds a newly created baked state if the
\* source is live; the source keeps its members; and self-assignment leaves
\* the object as it was.
C28_CopyIsNeverLive ==
    Copied =>
        LET this == objects[log.on]
            source == log.before[log.from]
        IN  IF log.on = log.from
            THEN objects = log.before /\ Len(heap) = log.allocated
            ELSE /\ ~threw
                 /\ this.exists
                 /\ this.context_ = "nullptr"
                 /\ this.scene_graph_ = "nullptr"
                 /\ IsDefault(source) => IsDefault(this)
                 /\ IsBaked(source) =>
                       this.state_ = source.state_ /\ Len(heap) = log.allocated
                 /\ IsLive(source) =>
                       /\ this.state_ = Len(heap)
                       /\ Len(heap) = log.allocated + 1
                 /\ objects[log.from] = source

\* A live object that was assigned a baked one, so that it shares the baked
\* state with its source.
C28_Witness ==
    /\ op = "operator="
    /\ log.on # log.from
    /\ IsLive(log.before[log.on])
    /\ IsBaked(log.before[log.from])
    /\ objects[log.on].state_ = objects[log.from].state_

Fresh(ctx) == [poses |-> ctx.poses, configurations |-> ctx.configurations]

Before(events, first, then) ==
    \A m, n \in 1..Len(events) :
        (events[m] = then /\ events[n] = first) => n < m

SnapshotIsFresh ==
    (Copied /\ log.on # log.from /\ IsLive(log.before[log.from])) =>
        /\ Before(log.events, "FullPoseUpdate", "geometry_state")
        /\ Before(log.events, "FullConfigurationUpdate", "geometry_state")
        /\ \E n \in 1..Len(log.events) : log.events[n] = "FullPoseUpdate"
        /\ \E n \in 1..Len(log.events) : log.events[n] = "FullConfigurationUpdate"
        /\ heap[objects[log.on].state_] = Fresh(context)

BakedStatesKept ==
    /\ Len(heap') >= Len(heap)
    /\ \A k \in 1..Len(heap) : heap'[k] = heap[k]

\* C29: when a live QueryObject is copied, its full pose and configuration
\* update is made before the GeometryState is copied, so that the baked
\* state holds the values at the context's input ports at the time of the
\* copy; and no later call or change of the context alters a baked state.
C29_BakedCopyIsNotStale == []SnapshotIsFresh /\ [][BakedStatesKept]_vars

\* The context changed, a live source was copied while its cached state was
\* stale, and the context changed again: the copy holds the values of the
\* time of the copy.
C29_Witness ==
    /\ op = "context changed"
    /\ Len(heap) = 1
    /\ heap[1] # Fresh(context)
    /\ heap[1] # [poses |-> 0, configurations |-> 0]

Updates == {"FullPoseUpdate", "FullConfigurationUpdate"}

Reads == {"geometry_state", "inspector_.IsDeformableGeometry"}

====
